---- MODULE Spec2Model ----
(***************************************************************************)
(* A model of the nowcasting core of the Midas repository:                 *)
(*   - DataCalendar.get_available_indicators   (data_calendar.py)          *)
(*   - determine_target_quarter                (utils/dates.py)            *)
(*   - ForecastCombiner                        (models/evaluation.py)      *)
(*   - UMIDASModel.fit / predict               (models/umidas.py)          *)
(*   - run_weekly_nowcast, create_nowcast_report                           *)
(*                                   (workflows/mexico_nowcast_workflow.py)*)
(* Each component has its own specification; pc tells which component a    *)
(* behaviour exercises and where the orchestrator stands.                  *)
(***************************************************************************)
EXTENDS Integers, Sequences, FiniteSets, TLC

VARIABLES
    pc,                 \* component / position of the running function
    mex_releases,       \* DataCalendar.mex_releases (insertion-ordered dict)
    us_releases,        \* DataCalendar.us_releases
    reference_date,     \* the reference_date argument of the latest call
    available,          \* list returned by the latest get_available_indicators
    raised,             \* the latest call ended with an exception
    target,             \* tuple returned by the latest determine_target_quarter
    history,            \* ForecastCombiner.history: indicator -> ForecastHistory
    forecasts_df,       \* the forecasts table handed to the combiner
    strategy,           \* the strategy called last, with its parameter
    outcome,            \* "none", "returned" or "raised": how that call ended
    returned_weights,   \* the pd.Series of weights it returned
    x_monthly_dict,     \* run_weekly_nowcast: the monthly indicators by name
    next_indicator,     \* position of its loop in available_indicators
    umidas_model,       \* the UMIDASModel of the indicator being processed
    results,            \* its list of per-indicator results
    weighted_forecast,  \* the combined forecast it returns
    details_df,         \* the details table it returns
    report,             \* the dict create_nowcast_report returns
    forecast_history,   \* the ForecastHistory whose metrics are asked for
    metric_call,        \* the metric asked last: its name, window and value
    update_call,        \* the arguments of the latest update_forecast_history
    gdp_data,           \* a GDPData object: its class, historical_gdp, last_forecast
    gdp_series,         \* what its get_gdp_series returned, or that it raised
    estimator,          \* what Umidas(y, x_padded, k, ylag).fit() does for each lag pair
    fitted_instance,    \* a UMIDASModel: model_, bic_, params_
    first_fit,          \* the instance as its first fit on (X, y, month_in_quarter) left it
    fit_call,           \* the latest fit: its inputs and the instance it was called on
    predict_call,       \* the latest predict: its arguments and how it ended
    config_variable_info, \* generate_release_calendar: the variables and their metadata
    target_year,        \* its target_year argument
    quarters,           \* its quarters argument
    release_calendar,   \* the rows of the DataFrame it returned
    evaluated,          \* the lag pairs evaluated so far, when taken in any order
    reduced,            \* the best candidate among them
    out_of_order        \* a lag pair was evaluated before one that the loops put first

calendarVars == <<mex_releases, us_releases, reference_date, available, raised, target>>

combinerVars == <<history, forecasts_df, strategy, outcome, returned_weights>>

workflowVars == <<x_monthly_dict, next_indicator, umidas_model, results, weighted_forecast, details_df, report>>

metricVars == <<forecast_history, metric_call>>

\* the variables of the components that stand alone
gdpVars == <<gdp_data, gdp_series>>

fitVars == <<estimator, fitted_instance, first_fit, fit_call, predict_call>>

releaseVars == <<config_variable_info, target_year, quarters, release_calendar>>

orderVars == <<evaluated, reduced, out_of_order>>

restVars == <<fitVars, releaseVars, orderVars>>

otherVars == <<metricVars, update_call, gdpVars, restVars>>

vars == <<pc, calendarVars, combinerVars, workflowVars, otherVars>>

\* the value of each component's variables while another component runs
IdleCalendar ==
    /\ mex_releases = << >> /\ us_releases = << >>
    /\ reference_date = [year |-> 0, month |-> 0, day |-> 0]
    /\ available = << >>
    /\ raised = FALSE
    /\ target = [quarter |-> 0, year |-> 0, month_in_quarter |-> 0]

IdleCombiner ==
    /\ history = << >>
    /\ forecasts_df = [columns |-> {}, rows |-> << >>]
    /\ strategy = [name |-> "none", param |-> 0]
    /\ outcome = "none"
    /\ returned_weights = << >>

IdleWorkflow ==
    /\ x_monthly_dict = << >>
    /\ next_indicator = 0
    /\ umidas_model = [fitted |-> FALSE, bic_ |-> [k |-> "inf", n |-> 1, d |-> 1],
                       x_padded |-> [index |-> << >>, values |-> << >>]]
    /\ results = << >>
    /\ weighted_forecast = [k |-> "nan", n |-> 0, d |-> 1]
    /\ details_df = << >>
    /\ report = [status |-> "none"]

IdleMetrics ==
    /\ forecast_history = [forecasts |-> << >>, actuals |-> << >>, dates |-> << >>]
    /\ metric_call = [name |-> "none", window |-> 0, value |-> [k |-> "nan", n |-> 0, d |-> 1]]

NoUpdate == [new_forecasts |-> [columns |-> {}, rows |-> << >>],
             actual_gdp |-> 0, forecast_date |-> 0]

IdleUpdate == update_call = NoUpdate

IdleGdp ==
    /\ gdp_data = [module |-> "none", historical_gdp |-> << >>,
                   last_forecast |-> [k |-> "none", n |-> 0, d |-> 1]]
    /\ gdp_series = [raised |-> FALSE, series |-> << >>]

IdleFit ==
    /\ estimator = << >>
    /\ fitted_instance = [model_ |-> [inputs |-> "none", ylag |-> 0, k |-> 0],
                          bic_ |-> [k |-> "inf", n |-> 1, d |-> 1],
                          params_ |-> [inputs |-> "none", ylag |-> 0, k |-> 0]]
    /\ first_fit = [inputs |-> "none"]
    /\ fit_call = [inputs |-> "none"]
    /\ predict_call = [X_pred |-> "none"]

IdleRelease ==
    /\ config_variable_info = << >>
    /\ target_year = 0
    /\ quarters = << >>
    /\ release_calendar = << >>

IdleOrder ==
    /\ evaluated = {}
    /\ reduced = [bic |-> [k |-> "inf", n |-> 1, d |-> 1],
                  model |-> [inputs |-> "none", ylag |-> 0, k |-> 0]]
    /\ out_of_order = FALSE

IdleRest == IdleFit /\ IdleRelease /\ IdleOrder

IdleOther == IdleMetrics /\ IdleUpdate /\ IdleGdp /\ IdleRest

(***************************************************************************)
(* Bounds of the model.                                                    *)
(***************************************************************************)
\* number of calendar years after FirstYear the reference dates range over
NumYears == 0

\* 2024 is a leap year; with the bound raised 2025 is reached too
FirstYear == 2000 + 24

Years == FirstYear..(FirstYear + NumYears)

(***************************************************************************)
(* datetime: proleptic Gregorian calendar, as Python's datetime module.    *)
(***************************************************************************)
IsLeap(y) == (y % 4 = 0) /\ ((y % 100 # 0) \/ (y % 400 = 0))

DaysInMonth(y, m) ==
    IF m = 2 THEN (IF IsLeap(y) THEN 29 ELSE 28)
    ELSE IF m \in {4, 6, 9, 11} THEN 30 ELSE 31

Date(y, m, d) == [year |-> y, month |-> m, day |-> d]

RECURSIVE DaysBeforeMonth(_, _)
DaysBeforeMonth(y, m) ==
    IF m = 1 THEN 0 ELSE DaysBeforeMonth(y, m - 1) + DaysInMonth(y, m - 1)

\* date.toordinal(): 0001-01-01 is day 1
ToOrdinal(dt) ==
    LET y1 == dt.year - 1
    IN  y1 * 365 + (y1 \div 4) - (y1 \div 100) + (y1 \div 400)
        + DaysBeforeMonth(dt.year, dt.month) + dt.day

\* date.weekday(): Monday is 0, Sunday is 6
Weekday(dt) == (ToOrdinal(dt) + 6) % 7

\* dt - timedelta(days=1)
MinusOneDay(dt) ==
    IF dt.day > 1 THEN Date(dt.year, dt.month, dt.day - 1)
    ELSE IF dt.month > 1
         THEN Date(dt.year, dt.month - 1, DaysInMonth(dt.year, dt.month - 1))
         ELSE Date(dt.year - 1, 12, 31)

Dates == { Date(y, m, d) : y \in Years, m \in 1..12, d \in 1..31 } \cap
         { dt \in [year : Years, month : 1..12, day : 1..31] :
             dt.day <= DaysInMonth(dt.year, dt.month) }

\* the dates a later call of the same release cycle, or of the next month, is made on
LaterDates(dt) ==
    { Date(dt.year, dt.month, d) : d \in (dt.day + 1)..DaysInMonth(dt.year, dt.month) }
    \cup (IF dt.month < 12 THEN { Date(dt.year, dt.month + 1, 1) }
          ELSE IF dt.year + 1 \in Years THEN { Date(dt.year + 1, 1, 1) } ELSE {})

(***************************************************************************)
(* Release schedules: a dict with the optional keys 'week' and 'day'.      *)
(***************************************************************************)
Schedule(w, d) == [keys |-> {"week", "day"}, week |-> w, day |-> d]
ScheduleWeekOnly(w) == [keys |-> {"week"}, week |-> w, day |-> 0]
ScheduleDayOnly(d) == [keys |-> {"day"}, week |-> 0, day |-> d]
ScheduleEmpty == [keys |-> {}, week |-> 0, day |-> 0]

Release(n, s) == [name |-> n, schedule |-> s]

\* schedule.get(key) is not None
HasKey(schedule, key) == key \in schedule.keys

DefaultMexReleases == <<
    Release("business_confidence", Schedule(1, 3)),
    Release("business_trend", Schedule(1, 3)),
    Release("manufacturing_orders", Schedule(1, 3)),
    Release("consumer_confidence", Schedule(1, 6)),
    Release("vehicle_sales", Schedule(1, 6)),
    Release("industrial_activity", Schedule(2, 11)),
    Release("manufacturing_survey", Schedule(3, 16)),
    Release("services_survey", Schedule(3, 21)),
    Release("commercial_survey", Schedule(3, 21)),
    Release("construction_survey", Schedule(4, 24)),
    Release("private_consumption", Schedule(1, 15)),
    Release("fixed_capital", Schedule(1, 15)),
    Release("trade_balance_prelim", Schedule(4, 27)),
    Release("employment_monthly", Schedule(4, 28)) >>

DefaultUsReleases == <<
    Release("ism_manufacturing", Schedule(1, 1)),
    Release("nonfarm_payrolls", Schedule(1, 5)),
    Release("retail_sales", Schedule(2, 15)),
    Release("industrial_production", Schedule(2, 16)),
    Release("consumer_confidence", Schedule(4, -1)) >>

MexicoMexReleases == <<
    Release("EAI", Schedule(4, 22)),
    Release("PMI_M", Schedule(1, 3)),
    Release("PMI_NM", Schedule(1, 3)),
    Release("RETSALES", Schedule(3, 21)),
    Release("RETGRO", Schedule(3, 21)),
    Release("RETSUP", Schedule(3, 21)),
    Release("RETTEXT", Schedule(3, 21)),
    Release("RETPERF", Schedule(3, 21)),
    Release("RETFURN", Schedule(3, 21)),
    Release("RETCAR", Schedule(3, 21)) >>

\* schedules a configuration may give the extra indicator "probe"
ScheduleSpace ==
    { Schedule(w, d) : w \in 1..5, d \in {-1} \cup 1..31 }
    \cup { ScheduleWeekOnly(w) : w \in 1..5 }
    \cup { ScheduleDayOnly(d) : d \in 1..31 }
    \cup { ScheduleEmpty }

(***************************************************************************)
(* DataCalendar.get_available_indicators                                   *)
(***************************************************************************)
week_of_month(dt) == ((dt.day - 1) \div 7) + 1

\* ScheduleAvailable with the day compared by > instead of >=
ScheduleAvailable_StrictDay(schedule, dt) ==
    IF HasKey(schedule, "week") /\ HasKey(schedule, "day")
    THEN \/ week_of_month(dt) > schedule.week
         \/ (week_of_month(dt) = schedule.week /\ dt.day > schedule.day)
    ELSE IF HasKey(schedule, "day")
    THEN dt.day > schedule.day
    ELSE FALSE

\* ScheduleAvailable without the 'a later week' disjunct
ScheduleAvailable_SameWeekOnly(schedule, dt) ==
    IF HasKey(schedule, "week") /\ HasKey(schedule, "day")
    THEN week_of_month(dt) = schedule.week /\ dt.day >= schedule.day
    ELSE IF HasKey(schedule, "day")
    THEN dt.day >= schedule.day
    ELSE FALSE

\* ScheduleAvailable with a schedule lacking 'day' read as 'from the start of the week'
ScheduleAvailable_WeekOnlyRule(schedule, dt) ==
    IF HasKey(schedule, "week") /\ HasKey(schedule, "day")
    THEN \/ week_of_month(dt) > schedule.week
         \/ (week_of_month(dt) = schedule.week /\ dt.day >= schedule.day)
    ELSE IF HasKey(schedule, "day")
    THEN dt.day >= schedule.day
    ELSE IF HasKey(schedule, "week")
    THEN week_of_month(dt) >= schedule.week
    ELSE TRUE

\* the week/day test of lines 62-68 and 91-97
ScheduleAvailable(schedule, dt) ==
    IF HasKey(schedule, "week") /\ HasKey(schedule, "day")
    THEN \/ week_of_month(dt) > schedule.week
         \/ (week_of_month(dt) = schedule.week /\ dt.day >= schedule.day)
    ELSE IF HasKey(schedule, "day")
    THEN dt.day >= schedule.day
    ELSE FALSE

\* lines 76: the relative rule 'last Tuesday of the month'
IsLastTuesdayRule(schedule) ==
    /\ HasKey(schedule, "day") /\ schedule.day = -1
    /\ HasKey(schedule, "week") /\ schedule.week = 4

\* line 77
last_day_of_month(dt) ==
    MinusOneDay(Date(dt.year, (dt.month % 12) + 1, 1)).day

\* lines 79-86: the first Tuesday found scanning back from the month's end; 0 is None
actual_release_day(dt) ==
    LET last == last_day_of_month(dt)
        hits == { off \in 0..6 :
                    /\ last - off >= 1
                    /\ Weekday(Date(dt.year, dt.month, last - off)) = 1 }
    IN  IF hits = {} THEN 0
        ELSE last - (CHOOSE off \in hits : \A o \in hits : off <= o)

UsScheduleAvailable(schedule, dt) ==
    IF IsLastTuesdayRule(schedule)
    THEN actual_release_day(dt) # 0 /\ dt.day >= actual_release_day(dt)
    ELSE ScheduleAvailable(schedule, dt)

UsName(n) == "us_" \o n

NamesOf(entries) == [i \in DOMAIN entries |-> entries[i].name]

get_available_indicators(mex, us, dt) ==
    LET mexOk(e) == ScheduleAvailable(e.schedule, dt)
        usOk(e) == UsScheduleAvailable(e.schedule, dt)
        usHits == SelectSeq(us, usOk)
    IN  NamesOf(SelectSeq(mex, mexOk)) \o [i \in DOMAIN usHits |-> UsName(usHits[i].name)]

(***************************************************************************)
(* determine_target_quarter                                                *)
(***************************************************************************)
\* determine_target_quarter with the month not shifted to 0..11 first
determine_target_quarter_Unshifted(dt) ==
    [quarter |-> (dt.month \div 3) + 1,
     year |-> dt.year,
     month_in_quarter |-> dt.month % 3]

determine_target_quarter(dt) ==
    [quarter |-> ((dt.month - 1) \div 3) + 1,
     year |-> dt.year,
     month_in_quarter |-> (dt.month - 1) % 3]

NoTarget == [quarter |-> 0, year |-> 0, month_in_quarter |-> 0]

(***************************************************************************)
(* The calendar component: a calendar object is constructed, then asked    *)
(* for the available indicators on dates that move forward in time.        *)
(***************************************************************************)
\* the calendars a run may construct: the two classes as written, and a
\* DataCalendar whose release tables were overridden by configuration
CalendarConfigs ==
    { [mex |-> DefaultMexReleases, us |-> DefaultUsReleases],
      [mex |-> MexicoMexReleases, us |-> DefaultUsReleases] }
    \cup { [mex |-> << Release("probe", s) >>, us |-> << Release("probe", s) >>] :
             s \in ScheduleSpace }

\* reference_date before the first call
NoDate == Date(0, 0, 0)

InitCalendar ==
    /\ pc = "calendar"
    /\ \E c \in CalendarConfigs : mex_releases = c.mex /\ us_releases = c.us
    /\ reference_date = NoDate
    /\ available = << >>
    /\ raised = FALSE
    /\ target = NoTarget
    /\ IdleCombiner
    /\ IdleWorkflow
    /\ IdleOther

\* a call with a datetime (or a parseable date string)
GetAvailableIndicators ==
    /\ pc = "calendar"
    /\ \E dt \in (IF reference_date = NoDate THEN Dates ELSE LaterDates(reference_date)) :
         /\ reference_date' = dt
         /\ available' = get_available_indicators(mex_releases, us_releases, dt)
    /\ raised' = FALSE
    /\ UNCHANGED <<pc, mex_releases, us_releases, target, combinerVars, workflowVars, otherVars>>

\* a call with a string pd.to_datetime cannot parse: ValueError (lines 40-46)
GetAvailableIndicatorsUnparseable ==
    /\ pc = "calendar"
    /\ raised' = TRUE
    /\ UNCHANGED <<pc, mex_releases, us_releases, reference_date, available, target, combinerVars, workflowVars, otherVars>>

InitDates ==
    /\ pc = "dates"
    /\ mex_releases = << >> /\ us_releases = << >>
    /\ reference_date \in Dates
    /\ available = << >>
    /\ raised = FALSE
    /\ target = NoTarget
    /\ IdleCombiner
    /\ IdleWorkflow
    /\ IdleOther

DetermineTargetQuarter ==
    /\ pc = "dates"
    /\ target = NoTarget
    /\ target' = determine_target_quarter(reference_date)
    /\ UNCHANGED <<pc, mex_releases, us_releases, reference_date, available, raised, combinerVars, workflowVars, otherVars>>

NextCalendar == GetAvailableIndicators \/ GetAvailableIndicatorsUnparseable

SpecCalendar == InitCalendar /\ [][NextCalendar]_vars

NextDates == DetermineTargetQuarter

SpecDates == InitDates /\ [][NextDates]_vars

(***************************************************************************)
(* Floating-point values, kept exact: a finite value is a reduced fraction *)
(* n/d with d > 0; "inf" carries its sign in n; "nan" is not-a-number.     *)
(* Arithmetic follows IEEE 754 / numpy for the special values.             *)
(***************************************************************************)
Abs(x) == IF x < 0 THEN -x ELSE x

RECURSIVE Gcd(_, _)
Gcd(a, b) == IF b = 0 THEN a ELSE Gcd(b, a % b)

Fin(n, d) ==
    LET g == Gcd(Abs(n), Abs(d))
        s == IF d < 0 THEN -1 ELSE 1
    IN  [k |-> "fin", n |-> (s * n) \div g, d |-> (s * d) \div g]

Num(i) == [k |-> "fin", n |-> i, d |-> 1]
NaN == [k |-> "nan", n |-> 0, d |-> 1]
Inf(sign) == [k |-> "inf", n |-> sign, d |-> 1]
PosInf == Inf(1)

Sign(x) == IF x.n > 0 THEN 1 ELSE IF x.n < 0 THEN -1 ELSE 0
IsNaN(x) == x.k = "nan"
IsInf(x) == x.k = "inf"
IsFin(x) == x.k = "fin"
IsZero(x) == x.k = "fin" /\ x.n = 0

FAdd(a, b) ==
    IF IsNaN(a) \/ IsNaN(b) THEN NaN
    ELSE IF IsInf(a) /\ IsInf(b) THEN (IF a.n = b.n THEN a ELSE NaN)
    ELSE IF IsInf(a) THEN a
    ELSE IF IsInf(b) THEN b
    ELSE Fin(a.n * b.d + b.n * a.d, a.d * b.d)

FNeg(a) == IF IsNaN(a) THEN NaN ELSE [a EXCEPT !.n = -a.n]

FSub(a, b) == FAdd(a, FNeg(b))

FMul(a, b) ==
    IF IsNaN(a) \/ IsNaN(b) THEN NaN
    ELSE IF IsInf(a) \/ IsInf(b)
         THEN (IF Sign(a) * Sign(b) = 0 THEN NaN ELSE Inf(Sign(a) * Sign(b)))
    ELSE Fin(a.n * b.n, a.d * b.d)

\* a / b; a finite non-zero value over (positive) zero is +-inf, 0/0 is nan
FDiv(a, b) ==
    IF IsNaN(a) \/ IsNaN(b) THEN NaN
    ELSE IF IsInf(b) THEN (IF IsInf(a) THEN NaN ELSE Num(0))
    ELSE IF IsZero(b) THEN (IF IsZero(a) THEN NaN ELSE Inf(Sign(a)))
    ELSE IF IsInf(a) THEN Inf(Sign(a) * Sign(b))
    ELSE Fin(a.n * b.d, a.d * b.n)

\* a < b; every comparison with nan is false
FLt(a, b) ==
    IF IsNaN(a) \/ IsNaN(b) THEN FALSE
    ELSE IF IsInf(a) THEN a.n < 0 /\ ~(IsInf(b) /\ b.n < 0)
    ELSE IF IsInf(b) THEN b.n > 0
    ELSE a.n * b.d < b.n * a.d

\* a == b
FEq(a, b) == ~IsNaN(a) /\ ~IsNaN(b) /\ a = b

FLe(a, b) == FLt(a, b) \/ FEq(a, b)

\* the exact root of a fraction whose numerator and denominator are squares
ISqrt(n) == CHOOSE r \in 0..n : r * r = n
FSqrt(a) ==
    IF IsNaN(a) \/ (IsFin(a) /\ a.n < 0) THEN NaN
    ELSE IF IsInf(a) THEN a
    ELSE Fin(ISqrt(a.n), ISqrt(a.d))

\* sum of a sequence of values
RECURSIVE FSumSeq(_)
FSumSeq(xs) == IF xs = << >> THEN Num(0) ELSE FAdd(xs[1], FSumSeq(Tail(xs)))

(***************************************************************************)
(* pandas Series: an ordered list of (label, value); the labels of a       *)
(* DataFrame's default index are its row positions.                        *)
(***************************************************************************)
Digits == << "0", "1", "2", "3", "4", "5", "6", "7", "8", "9" >>
PosLabel(i) == Digits[i + 1]

Entry(l, v) == [label |-> l, value |-> v]
EmptySeries == << >>
Values(series) == [i \in DOMAIN series |-> series[i].value]
Labels(series) == [i \in DOMAIN series |-> series[i].label]

IsNotNaN(x) == ~IsNaN(x)

\* Series.sum(): nan entries are skipped, the sum of nothing is 0
SeriesSum(series) == FSumSeq(SelectSeq(Values(series), IsNotNaN))

\* Series.isnull().all()
AllNull(series) == \A i \in DOMAIN series : IsNaN(series[i].value)

\* series.replace([inf, -inf], nan)
ReplaceInf(series) ==
    [i \in DOMAIN series |->
        IF IsInf(series[i].value) THEN Entry(series[i].label, NaN) ELSE series[i]]

\* np.nanmax: the largest non-nan value, nan when there is none
NanMax(series) ==
    LET vs == { series[i].value : i \in DOMAIN series } \ {NaN}
    IN  IF vs = {} THEN NaN ELSE CHOOSE v \in vs : \A u \in vs : FLe(u, v)

\* series.fillna(value)
FillNa(series, v) ==
    [i \in DOMAIN series |->
        IF IsNaN(series[i].value) THEN Entry(series[i].label, v) ELSE series[i]]

\* x / series and series / x, element by element
Reciprocal(x, series) ==
    [i \in DOMAIN series |-> Entry(series[i].label, FDiv(x, series[i].value))]
DivideBy(series, x) ==
    [i \in DOMAIN series |-> Entry(series[i].label, FDiv(series[i].value, x))]

\* pd.Series([1/num_models] * num_models, index=labels)
EqualWeights(labels) ==
    [i \in DOMAIN labels |-> Entry(labels[i], Fin(1, Len(labels)))]

\* replace infinities by the largest finite value + 100 (evaluation.py lines 75, 101, 163)
InfToLarge(series) ==
    FillNa(ReplaceInf(series), FAdd(NanMax(ReplaceInf(series)), Num(100)))

(***************************************************************************)
(* ForecastHistory and its metrics                                         *)
(***************************************************************************)
History(f, a, d) == [forecasts |-> f, actuals |-> a, dates |-> d]

\* xs[-window:]  (window > 0)
LastN(xs, window) ==
    IF window >= Len(xs) THEN xs ELSE SubSeq(xs, Len(xs) - window + 1, Len(xs))

\* xs[k:]
DropFirst(xs, k) == IF k >= Len(xs) THEN << >> ELSE SubSeq(xs, k + 1, Len(xs))

\* errors[-window:] under 'if window:' (None and 0 keep everything)
Windowed(xs, window) ==
    IF window > 0 THEN LastN(xs, window)
    ELSE IF window < 0 THEN DropFirst(xs, -window)
    ELSE xs

\* np.mean of a sequence of integers (nan for an empty one)
MeanInt(xs) == FDiv(FSumSeq([i \in DOMAIN xs |-> Num(xs[i])]), Num(Len(xs)))

Errors(h) == [i \in DOMAIN h.forecasts |-> h.forecasts[i] - h.actuals[i]]

\* calculate_rmse with the test for an empty history left out
calculate_rmse_NoEmptyTest(h, window) ==
    LET e == Windowed(Errors(h), window)
    IN  FSqrt(MeanInt([i \in DOMAIN e |-> e[i] * e[i]]))

\* ForecastHistory.calculate_rmse; window 0 stands for None
calculate_rmse(h, window) ==
    IF Len(h.forecasts) = 0 THEN PosInf
    ELSE LET e == Windowed(Errors(h), window)
         IN  FSqrt(MeanInt([i \in DOMAIN e |-> e[i] * e[i]]))

\* ForecastHistory.calculate_mae
calculate_mae(h, window) ==
    IF Len(h.forecasts) = 0 THEN PosInf
    ELSE LET e == Windowed(Errors(h), window)
         IN  MeanInt([i \in DOMAIN e |-> Abs(e[i])])

\* np.diff
Diff(xs) == [i \in 1..(Len(xs) - 1) |-> xs[i + 1] - xs[i]]

\* calculate_directional_accuracy with >= 0 on line 49: an unchanged value counts as correct
calculate_directional_accuracy_TiesCorrect(h, window) ==
    IF Len(h.forecasts) < 2 THEN Fin(1, 2)
    ELSE LET f_direction == Diff(h.forecasts)
             a_direction == Diff(h.actuals)
             correct_dir == [i \in DOMAIN f_direction |->
                               IF f_direction[i] * a_direction[i] >= 0 THEN 1 ELSE 0]
             kept == Windowed(correct_dir, window)
         IN  IF window < 0 \/ Len(kept) = 0 THEN Fin(1, 2) ELSE MeanInt(kept)

\* ForecastHistory.calculate_directional_accuracy
calculate_directional_accuracy(h, window) ==
    IF Len(h.forecasts) < 2 THEN Fin(1, 2)
    ELSE LET f_direction == Diff(h.forecasts)
             a_direction == Diff(h.actuals)
             correct_dir == [i \in DOMAIN f_direction |->
                               IF f_direction[i] * a_direction[i] > 0 THEN 1 ELSE 0]
             kept == Windowed(correct_dir, window)
         IN  IF window < 0 \/ Len(kept) = 0 THEN Fin(1, 2) ELSE MeanInt(kept)

(***************************************************************************)
(* ForecastCombiner: each strategy maps the forecasts table and the        *)
(* history to a Series of weights, or raises.                              *)
(***************************************************************************)
Row(ind, f, b) == [indicator |-> ind, forecast |-> f, bic |-> b]
DataFrame(cols, rows) == [columns |-> cols, rows |-> rows]

Returns(w) == [raised |-> FALSE, weights |-> w]
Raises == [raised |-> TRUE, weights |-> EmptySeries]

\* forecasts_df.index
IndexOf(df) == [i \in DOMAIN df.rows |-> PosLabel(i - 1)]

\* forecasts_df.get('indicator', pd.Series(dtype=str)): the names, in row order
IndicatorsOf(df) ==
    IF "indicator" \in df.columns THEN [i \in DOMAIN df.rows |-> df.rows[i].indicator]
    ELSE << >>

\* forecasts_df['bic']
BicColumn(df) == [i \in DOMAIN df.rows |-> Entry(PosLabel(i - 1), df.rows[i].bic)]

\* the fallback of combine_bic (lines 71-72, 78-79, 83-84):
\* forecasts_df['indicator'] raises KeyError, 1/num_models ZeroDivisionError
BicFallback(df) ==
    IF "indicator" \notin df.columns \/ Len(df.rows) = 0 THEN Raises
    ELSE Returns(EqualWeights(IndexOf(df)))

\* combine_bic with weights proportional to the criterion instead of its inverse
combine_bic_Proportional(hist, df) ==
    IF "bic" \notin df.columns \/ Len(df.rows) = 0 THEN BicFallback(df)
    ELSE LET bic_values == InfToLarge(BicColumn(df))
         IN  IF AllNull(bic_values) \/ IsZero(SeriesSum(bic_values)) THEN BicFallback(df)
             ELSE Returns(DivideBy(bic_values, SeriesSum(bic_values)))

\* ForecastCombiner.combine_bic
combine_bic(hist, df) ==
    IF "bic" \notin df.columns \/ Len(df.rows) = 0 THEN BicFallback(df)
    ELSE LET bic_values == InfToLarge(BicColumn(df))
             weights == Reciprocal(Num(1), bic_values)
         IN  IF AllNull(bic_values) THEN BicFallback(df)
             ELSE IF IsZero(SeriesSum(weights)) THEN BicFallback(df)
             ELSE Returns(DivideBy(weights, SeriesSum(weights)))

\* the indicators of the table that have an entry in the history, in row order
InHistory(hist, indicators) ==
    LET known(ind) == ind \in DOMAIN hist IN SelectSeq(indicators, known)

\* pd.Series({ind: metric(history[ind]) for ind in indicators if ind in history})
MetricOf(h, metric, window) ==
    CASE metric = "rmse" -> calculate_rmse(h, window)
      [] metric = "mae" -> calculate_mae(h, window)
      [] metric = "dir_acc" -> calculate_directional_accuracy(h, window)
      [] metric = "-dir_acc" -> FNeg(calculate_directional_accuracy(h, window))

MetricSeries(hist, indicators, metric, window) ==
    LET inds == InHistory(hist, indicators)
    IN  [i \in DOMAIN inds |-> Entry(inds[i], MetricOf(hist[inds[i]], metric, window))]

\* the fallback of the history-based strategies: equal weights on indicators.index
PositionalEqualWeights(indicators) ==
    EqualWeights([i \in DOMAIN indicators |-> PosLabel(i - 1)])

\* ForecastCombiner.combine_rmse; window 0 stands for None
combine_rmse(hist, df, window) ==
    LET indicators == IndicatorsOf(df)
        rmse_values == MetricSeries(hist, indicators, "rmse", window)
        weights == Reciprocal(Num(1), InfToLarge(rmse_values))
    IN  IF Len(indicators) = 0 THEN Returns(EmptySeries)
        ELSE IF Len(rmse_values) = 0 THEN Returns(PositionalEqualWeights(indicators))
        ELSE IF IsZero(SeriesSum(weights)) THEN Returns(PositionalEqualWeights(indicators))
        ELSE Returns(DivideBy(weights, SeriesSum(weights)))

\* Series.rank(): the average rank among equal values, nan for nan
Rank(series) ==
    [i \in DOMAIN series |->
        IF IsNaN(series[i].value) THEN Entry(series[i].label, NaN)
        ELSE LET less == Cardinality({ j \in DOMAIN series : FLt(series[j].value, series[i].value) })
                 same == Cardinality({ j \in DOMAIN series : FEq(series[j].value, series[i].value) })
             IN  Entry(series[i].label, Fin(2 * less + same + 1, 2))]

\* a.fillna(0) + b.fillna(0) + c.fillna(0) of Series with the same labels
AddFilled(a, b, c) ==
    [i \in DOMAIN a |->
        Entry(a[i].label,
              FAdd(FillNa(a, Num(0))[i].value,
                   FAdd(FillNa(b, Num(0))[i].value, FillNa(c, Num(0))[i].value)))]

\* series.replace(0, nan)
ReplaceZero(series) ==
    [i \in DOMAIN series |->
        IF IsZero(series[i].value) THEN Entry(series[i].label, NaN) ELSE series[i]]

\* ForecastCombiner.combine_performance_rank
combine_performance_rank(hist, df) ==
    LET indicators == IndicatorsOf(df)
        rmse_rank == Rank(MetricSeries(hist, indicators, "rmse", 0))
        mae_rank == Rank(MetricSeries(hist, indicators, "mae", 0))
        dir_acc_rank == Rank(MetricSeries(hist, indicators, "-dir_acc", 0))
        combined_rank == AddFilled(rmse_rank, mae_rank, dir_acc_rank)
        weights == Reciprocal(Num(1), ReplaceZero(combined_rank))
    IN  IF Len(indicators) = 0 THEN Returns(EmptySeries)
        ELSE IF Len(rmse_rank) = 0 THEN Returns(PositionalEqualWeights(indicators))
        ELSE IF AllNull(weights) \/ IsZero(SeriesSum(weights))
             THEN Returns(PositionalEqualWeights(indicators))
        ELSE Returns(DivideBy(weights, SeriesSum(weights)))

\* np.median of a non-empty list of integers
Median(xs) ==
    LET sorted == SortSeq(xs, LAMBDA a, b : a < b)
        n == Len(xs)
    IN  IF n % 2 = 1 THEN Num(sorted[(n + 1) \div 2])
        ELSE Fin(sorted[n \div 2] + sorted[(n \div 2) + 1], 2)

\* np.std(xs) squared: the population variance
Variance(xs) ==
    LET mean == MeanInt(xs)
        dev == [i \in DOMAIN xs |-> FMul(FSub(Num(xs[i]), mean), FSub(Num(xs[i]), mean))]
    IN  FDiv(FSumSeq(dev), Num(Len(xs)))

\* lines 170-178: volatility > median_actuals, for the first indicator with
\* at least `window` actuals (np.std >= 0, so the squares are compared)
IsVolatile(hist, indicators, window) ==
    LET enough(ind) == ind \in DOMAIN hist /\ Len(hist[ind].actuals) >= window
        valid == SelectSeq(indicators, enough)
        actuals == hist[valid[1]].actuals
        median_actuals == Median(actuals)
    IN  /\ Len(valid) > 0
        /\ Len(actuals) > 0
        /\ ~IsZero(median_actuals)
        /\ \/ median_actuals.n < 0
           \/ FLt(FMul(median_actuals, median_actuals), Variance(LastN(actuals, window)))

\* ForecastCombiner.combine_adaptive
combine_adaptive(hist, df, window) ==
    LET indicators == IndicatorsOf(df)
        recent_rmse_safe == InfToLarge(MetricSeries(hist, indicators, "rmse", window))
        recent_dir_acc == MetricSeries(hist, indicators, "dir_acc", window)
        volatile == IsVolatile(hist, indicators, window)
        rmse_weight == IF volatile THEN Fin(5, 10) ELSE Fin(7, 10)
        dir_weight == IF volatile THEN Fin(5, 10) ELSE Fin(3, 10)
        combined_score ==
            [i \in DOMAIN recent_rmse_safe |->
                Entry(recent_rmse_safe[i].label,
                      FAdd(FDiv(rmse_weight, recent_rmse_safe[i].value),
                           FMul(dir_weight, recent_dir_acc[i].value)))]
    IN  IF Len(indicators) = 0 THEN Returns(<< Entry(PosLabel(0), Num(1)) >>)
        ELSE IF Len(InHistory(hist, indicators)) = 0
             THEN Returns(PositionalEqualWeights(indicators))
        ELSE IF IsZero(SeriesSum(combined_score)) \/ AllNull(combined_score)
             THEN Returns(PositionalEqualWeights(indicators))
        ELSE Returns(DivideBy(combined_score, SeriesSum(combined_score)))

\* rmse_values.nsmallest(n_models).index: nan dropped, ties keep the first
NSmallest(series, n) ==
    LET before(i) == Cardinality({ j \in DOMAIN series :
                        \/ FLt(series[j].value, series[i].value)
                        \/ (FEq(series[j].value, series[i].value) /\ j < i) })
    IN  { series[i].label : i \in { j \in DOMAIN series :
                                      ~IsNaN(series[j].value) /\ before(j) < n } }

\* combine_thick_modeling giving 1/n_models to each selected indicator
combine_thick_modeling_FixedShare(hist, df, n_models) ==
    LET indicators == IndicatorsOf(df)
        rmse_values == MetricSeries(hist, indicators, "rmse", 0)
        top_n_indices == NSmallest(rmse_values, n_models)
    IN  IF Len(indicators) = 0 THEN Returns(EmptySeries)
        ELSE IF Len(rmse_values) = 0 THEN Returns(PositionalEqualWeights(indicators))
        ELSE IF top_n_indices = {} THEN Returns(PositionalEqualWeights(indicators))
        ELSE Returns([i \in DOMAIN indicators |->
                        Entry(indicators[i],
                              IF indicators[i] \in top_n_indices
                              THEN Fin(1, n_models) ELSE Num(0))])

\* ForecastCombiner.combine_thick_modeling
combine_thick_modeling(hist, df, n_models) ==
    LET indicators == IndicatorsOf(df)
        rmse_values == MetricSeries(hist, indicators, "rmse", 0)
        top_n_indices == NSmallest(rmse_values, n_models)
    IN  IF Len(indicators) = 0 THEN Returns(EmptySeries)
        ELSE IF Len(rmse_values) = 0 THEN Returns(PositionalEqualWeights(indicators))
        ELSE IF top_n_indices = {} THEN Returns(PositionalEqualWeights(indicators))
        ELSE Returns([i \in DOMAIN indicators |->
                        Entry(indicators[i],
                              IF indicators[i] \in top_n_indices
                              THEN Fin(1, Cardinality(top_n_indices)) ELSE Num(0))])

\* the dot product of two integer sequences of one length
RECURSIVE Dot(_, _)
Dot(xs, ys) == IF xs = << >> THEN 0 ELSE xs[1] * ys[1] + Dot(Tail(xs), Tail(ys))

\* a square matrix without row 1 and column j
MinorOf(M, j) ==
    [r \in 1..(Len(M) - 1) |->
        [c \in 1..(Len(M) - 1) |-> M[r + 1][IF c < j THEN c ELSE c + 1]]]

\* the determinant, expanded along the first row
RECURSIVE Det(_)
RECURSIVE DetTerms(_, _)
DetTerms(M, j) ==
    IF j > Len(M) THEN 0
    ELSE (IF j % 2 = 1 THEN 1 ELSE -1) * M[1][j] * Det(MinorOf(M, j)) + DetTerms(M, j + 1)
Det(M) == IF Len(M) = 1 THEN M[1][1] ELSE DetTerms(M, 1)

\* Ridge(alpha=1.0, fit_intercept=False).fit(X, y).coef_ : the solution of
\* (X'X + I) w = X'y, by Cramer's rule; columns holds the columns of X
RidgeCoef(columns, y) ==
    LET n == Len(columns)
        G == [r \in 1..n |-> [c \in 1..n |->
                Dot(columns[r], columns[c]) + (IF r = c THEN 1 ELSE 0)]]
        rhs == [r \in 1..n |-> Dot(columns[r], y)]
        Replaced(i) == [r \in 1..n |-> [c \in 1..n |-> IF c = i THEN rhs[r] ELSE G[r][c]]]
    IN  [i \in 1..n |-> Fin(Det(Replaced(i)), Det(G))]

\* the fallback of combine_regression_based (line 217): equal weights by name
NamedEqualWeights(indicators) == EqualWeights(indicators)

\* combine_regression_based falling back as soon as one indicator lacks history
combine_regression_based_AnyLacking(hist, df, window) ==
    LET indicators == IndicatorsOf(df)
        enough(ind) == /\ ind \in DOMAIN hist
                       /\ Len(hist[ind].forecasts) >= window
                       /\ Len(hist[ind].actuals) >= window
        valid == SelectSeq(indicators, enough)
        X_list == [i \in DOMAIN valid |-> LastN(hist[valid[i]].forecasts, window)]
        y_list == LastN(hist[valid[1]].actuals, window)
        raw_weights == RidgeCoef(X_list, y_list)
        positive_weights == [i \in DOMAIN raw_weights |->
                               IF FLt(raw_weights[i], Num(0)) THEN Num(0) ELSE raw_weights[i]]
        weight_sum == FSumSeq(positive_weights)
        final_weights_values ==
            [i \in DOMAIN positive_weights |->
                IF FLt(Num(0), weight_sum) THEN FDiv(positive_weights[i], weight_sum)
                ELSE Fin(1, Len(positive_weights))]
        PlaceOf(ind) == CHOOSE i \in DOMAIN valid : valid[i] = ind
        final_weights ==
            [i \in DOMAIN indicators |->
                Entry(indicators[i],
                      IF \E j \in DOMAIN valid : valid[j] = indicators[i]
                      THEN final_weights_values[PlaceOf(indicators[i])] ELSE Num(0))]
    IN  IF Len(indicators) = 0 THEN Returns(NamedEqualWeights(indicators))
        ELSE IF Len(valid) < Len(indicators) THEN Returns(NamedEqualWeights(indicators))
        ELSE IF IsZero(SeriesSum(final_weights)) THEN Returns(NamedEqualWeights(indicators))
        ELSE Returns(DivideBy(final_weights, SeriesSum(final_weights)))

\* ForecastCombiner.combine_regression_based
combine_regression_based(hist, df, window) ==
    LET indicators == IndicatorsOf(df)
        enough(ind) == /\ ind \in DOMAIN hist
                       /\ Len(hist[ind].forecasts) >= window
                       /\ Len(hist[ind].actuals) >= window
        valid == SelectSeq(indicators, enough)
        X_list == [i \in DOMAIN valid |-> LastN(hist[valid[i]].forecasts, window)]
        y_list == LastN(hist[valid[1]].actuals, window)
        raw_weights == RidgeCoef(X_list, y_list)
        positive_weights == [i \in DOMAIN raw_weights |->
                               IF FLt(raw_weights[i], Num(0)) THEN Num(0) ELSE raw_weights[i]]
        weight_sum == FSumSeq(positive_weights)
        final_weights_values ==
            [i \in DOMAIN positive_weights |->
                IF FLt(Num(0), weight_sum) THEN FDiv(positive_weights[i], weight_sum)
                ELSE Fin(1, Len(positive_weights))]
        PlaceOf(ind) == CHOOSE i \in DOMAIN valid : valid[i] = ind
        final_weights ==
            [i \in DOMAIN indicators |->
                Entry(indicators[i],
                      IF \E j \in DOMAIN valid : valid[j] = indicators[i]
                      THEN final_weights_values[PlaceOf(indicators[i])] ELSE Num(0))]
    IN  IF Len(indicators) = 0 THEN Returns(NamedEqualWeights(indicators))
        ELSE IF Len(valid) = 0 THEN Returns(NamedEqualWeights(indicators))
        ELSE IF IsZero(SeriesSum(final_weights)) THEN Returns(NamedEqualWeights(indicators))
        ELSE Returns(DivideBy(final_weights, SeriesSum(final_weights)))

(***************************************************************************)
(* The metrics component: a ForecastHistory is asked for its metrics.      *)
(***************************************************************************)
MaxObs == 3
MaxMetricWindow == 2
ActualSpace == {1, 2}
ErrorSizes == {0, 1, 2}

\* histories of 0..MaxObs observations whose errors have one size, so that
\* every root mean square is rational
MetricHistories ==
    UNION { { History([i \in 1..n |-> a[i] + s[i] * e], a, [i \in 1..n |-> i]) :
                a \in [1..n -> ActualSpace], s \in [1..n -> {-1, 1}], e \in ErrorSizes } :
            n \in 0..MaxObs }

\* window arguments: 0 stands for None (and for 0)
MetricWindows == (0 - 1)..MaxMetricWindow

InitMetrics ==
    /\ pc = "metrics"
    /\ forecast_history \in MetricHistories
    /\ metric_call = [name |-> "none", window |-> 0, value |-> NaN]
    /\ IdleUpdate
    /\ IdleGdp
    /\ IdleRest
    /\ IdleCalendar
    /\ IdleCombiner
    /\ IdleWorkflow

Asked(name, window, value) ==
    /\ pc = "metrics"
    /\ metric_call' = [name |-> name, window |-> window, value |-> value]
    /\ UNCHANGED <<pc, forecast_history, update_call, gdpVars, restVars, calendarVars,
                   combinerVars, workflowVars>>

CalculateRmse ==
    \E window \in MetricWindows :
        Asked("calculate_rmse", window, calculate_rmse(forecast_history, window))

CalculateMae ==
    \E window \in MetricWindows :
        Asked("calculate_mae", window, calculate_mae(forecast_history, window))

CalculateDirectionalAccuracy ==
    \E window \in MetricWindows :
        Asked("calculate_directional_accuracy", window,
              calculate_directional_accuracy(forecast_history, window))

NextMetrics == CalculateRmse \/ CalculateMae \/ CalculateDirectionalAccuracy

SpecMetrics == InitMetrics /\ [][NextMetrics]_vars

(***************************************************************************)
(* update_forecast_history (evaluation.py 268-292) and the component that  *)
(* calls it repeatedly on a history table that starts empty.               *)
(***************************************************************************)
ForecastRow(ind, f) == [indicator |-> ind, forecast |-> f]

NewHistory == History(<< >>, << >>, << >>)

\* a row's triple replacing what the entry held
AppendTriple_Overwrite(h, ind, f, a, d) ==
    [x \in DOMAIN h \cup {ind} |->
        IF x = ind THEN History(<< f >>, << a >>, << d >>) ELSE h[x]]

\* a row's triple appended, the date kept only on the first triple of an entry
AppendTriple_DateOnce(h, ind, f, a, d) ==
    LET base == IF ind \in DOMAIN h THEN h[ind] ELSE NewHistory
    IN  [x \in DOMAIN h \cup {ind} |->
            IF x = ind
            THEN History(Append(base.forecasts, f), Append(base.actuals, a),
                         IF base.dates = << >> THEN << d >> ELSE base.dates)
            ELSE h[x]]

\* lines 280-290: one row's triple appended, the entry created when missing
AppendTriple(h, ind, f, a, d) ==
    LET base == IF ind \in DOMAIN h THEN h[ind] ELSE NewHistory
    IN  [x \in DOMAIN h \cup {ind} |->
            IF x = ind
            THEN History(Append(base.forecasts, f), Append(base.actuals, a),
                         Append(base.dates, d))
            ELSE h[x]]

\* lines 278-290: the loop over new_forecasts.iterrows()
RECURSIVE UpdateRows(_, _, _, _)
UpdateRows(h, rows, a, d) ==
    IF rows = << >> THEN h
    ELSE UpdateRows(AppendTriple(h, rows[1].indicator, rows[1].forecast, a, d),
                    Tail(rows), a, d)

update_forecast_history(h, new_forecasts, actual_gdp, forecast_date) ==
    IF "indicator" \notin new_forecasts.columns \/ "forecast" \notin new_forecasts.columns
    THEN h
    ELSE UpdateRows(h, new_forecasts.rows, actual_gdp, forecast_date)

MaxUpdateRows == 2
MaxTriples == 2
UpdateIndicators == {"A", "B"}
UpdateValues == {1, 2}

\* the (actual_gdp, forecast_date) of a call
UpdateInputs == { [actual_gdp |-> 5, forecast_date |-> 7],
                  [actual_gdp |-> 6, forecast_date |-> 8] }

UpdateRowSpace == { ForecastRow(ind, f) : ind \in UpdateIndicators, f \in UpdateValues }

\* new_forecasts: tables of 0..MaxUpdateRows rows, with or without the columns
NewForecastTables ==
    UNION { { DataFrame({"indicator", "forecast"}, rows) :
                rows \in [1..n -> UpdateRowSpace] } : n \in 0..MaxUpdateRows }
    \cup { DataFrame(cols, << ForecastRow("A", 1) >>) :
             cols \in { {}, {"indicator"}, {"forecast"} } }

\* the number of triples the table holds
RECURSIVE TotalLength(_)
TotalLength(h) ==
    IF DOMAIN h = {} THEN 0
    ELSE LET x == CHOOSE x \in DOMAIN h : TRUE
         IN  Len(h[x].forecasts) + TotalLength([y \in DOMAIN h \ {x} |-> h[y]])

InitUpdate ==
    /\ pc = "update"
    /\ history = << >>
    /\ update_call = NoUpdate
    /\ forecasts_df = [columns |-> {}, rows |-> << >>]
    /\ strategy = [name |-> "none", param |-> 0]
    /\ outcome = "none"
    /\ returned_weights = << >>
    /\ IdleMetrics
    /\ IdleGdp
    /\ IdleRest
    /\ IdleCalendar
    /\ IdleWorkflow

UpdateForecastHistory ==
    /\ pc = "update"
    /\ \E new_forecasts \in NewForecastTables, input \in UpdateInputs :
          \* the table stops growing at MaxTriples
          /\ \/ TotalLength(history) < MaxTriples
             \/ update_forecast_history(history, new_forecasts, input.actual_gdp,
                                        input.forecast_date) = history
          /\ update_call' = [new_forecasts |-> new_forecasts,
                             actual_gdp |-> input.actual_gdp,
                             forecast_date |-> input.forecast_date]
          /\ history' = update_forecast_history(history, new_forecasts, input.actual_gdp,
                                                input.forecast_date)
    /\ UNCHANGED <<pc, forecasts_df, strategy, outcome, returned_weights, metricVars,
                   gdpVars, restVars, calendarVars, workflowVars>>

NextUpdate == UpdateForecastHistory

SpecUpdate == InitUpdate /\ [][NextUpdate]_vars

(***************************************************************************)
(* The combiner component: a ForecastCombiner is built over a history and  *)
(* its strategies are called on a forecasts table.                         *)
(***************************************************************************)
\* largest explicit window argument, largest explicit n_models argument
MaxWindow == 2
MaxNModels == 2

\* the defaults of combine_adaptive, combine_regression_based, combine_thick_modeling
DefaultAdaptiveWindow == 4
DefaultRegressionWindow == 8
DefaultNModels == 5

Indicators == << "A", "B", "C" >>

\* forecast and actual paths whose mean squared error has an exact root
HistorySpace ==
    { History(<< >>, << >>, << >>),
      History(<< 1 >>, << 1 >>, << 1 >>),
      History(<< 2 >>, << 1 >>, << 1 >>),
      History(<< 1, 3 >>, << 3, 1 >>, << 1, 2 >>),
      History(<< -2, 1 >>, << 1, -2 >>, << 1, 2 >>),
      History(<< 1, 3 >>, << 2, 4 >>, << 1, 2 >>) }

Range(f) == { f[x] : x \in DOMAIN f }

\* the history tables: any subset of the indicators, each with a history
HistoryTables ==
    UNION { [keys -> HistorySpace] : keys \in SUBSET Range(Indicators) }

BicSpace == { Num(-10), Num(0), Num(10), Num(40), PosInf }

AllColumns == { "indicator", "forecast", "bic" }

\* tables of 1..3 rows with any criteria
BicTables ==
    UNION { { DataFrame(AllColumns,
                        [i \in 1..n |-> Row(Indicators[i], Num(i), b[i])]) :
                b \in [1..n -> BicSpace] } : n \in 1..Len(Indicators) }

\* tables whose criteria are 10, 40, 20: an empty DataFrame, a table with
\* columns and no rows, tables of 1..3 rows, and one without the 'bic' column
PlainBic == << Num(10), Num(40), Num(20) >>
PlainRows(n) == [i \in 1..n |-> Row(Indicators[i], Num(i), PlainBic[i])]
EmptyDataFrame == DataFrame({}, << >>)
PlainTables ==
    { EmptyDataFrame, DataFrame(AllColumns, << >>),
      DataFrame({ "indicator", "forecast" }, PlainRows(2)) }
    \cup { DataFrame(AllColumns, PlainRows(n)) : n \in 1..Len(Indicators) }

InitCombiner ==
    /\ pc = "combiner"
    /\ \/ history \in HistoryTables /\ forecasts_df \in PlainTables
       \/ history = << >> /\ forecasts_df \in BicTables
    /\ strategy = [name |-> "none", param |-> 0]
    /\ outcome = "none"
    /\ returned_weights = EmptySeries
    /\ IdleCalendar
    /\ IdleWorkflow
    /\ IdleOther

\* a strategy call that empties the histories it read
Called_ClearsHistory(name, param, result) ==
    /\ pc = "combiner"
    /\ strategy' = [name |-> name, param |-> param]
    /\ outcome' = IF result.raised THEN "raised" ELSE "returned"
    /\ returned_weights' = result.weights
    /\ history' = [ind \in DOMAIN history |-> NewHistory]
    /\ UNCHANGED <<pc, forecasts_df, calendarVars, workflowVars, otherVars>>

\* a call of a strategy that ends as `result`
Called(name, param, result) ==
    /\ pc = "combiner"
    /\ strategy' = [name |-> name, param |-> param]
    /\ outcome' = IF result.raised THEN "raised" ELSE "returned"
    /\ returned_weights' = result.weights
    /\ UNCHANGED <<pc, history, forecasts_df, calendarVars, workflowVars, otherVars>>

CombineBic == Called("combine_bic", 0, combine_bic(history, forecasts_df))

CombineRmse ==
    \E window \in 0..MaxWindow :
        Called("combine_rmse", window, combine_rmse(history, forecasts_df, window))

CombinePerformanceRank ==
    Called("combine_performance_rank", 0, combine_performance_rank(history, forecasts_df))

CombineAdaptive ==
    \E window \in (1..MaxWindow) \cup {DefaultAdaptiveWindow} :
        Called("combine_adaptive", window, combine_adaptive(history, forecasts_df, window))

CombineThickModeling ==
    \E n_models \in (0..MaxNModels) \cup {DefaultNModels} :
        Called("combine_thick_modeling", n_models,
               combine_thick_modeling(history, forecasts_df, n_models))

CombineRegressionBased ==
    \E window \in (1..MaxWindow) \cup {DefaultRegressionWindow} :
        Called("combine_regression_based", window,
               combine_regression_based(history, forecasts_df, window))

NextCombiner ==
    \/ CombineBic
    \/ CombineRmse
    \/ CombinePerformanceRank
    \/ CombineAdaptive
    \/ CombineThickModeling
    \/ CombineRegressionBased

SpecCombiner == InitCombiner /\ [][NextCombiner]_vars

\* the combiner used with one strategy only
SpecThickModeling == InitCombiner /\ [][CombineThickModeling]_vars

SpecRegressionBased == InitCombiner /\ [][CombineRegressionBased]_vars

(***************************************************************************)
(* UMIDASModel.fit: the padding of the monthly series (umidas.py 33-53).   *)
(* A monthly timestamp is kept as its month number, 12 * year + month - 1. *)
(***************************************************************************)
MonthIndex(y, m) == 12 * y + (m - 1)

XSeries(kind, index) ==
    [kind |-> kind, index |-> index, values |-> [j \in DOMAIN index |-> "obs"]]

NoSeries == [index |-> << >>, values |-> << >>]

\* lines 33-53: x_padded; pd.date_range(start=last_date + DateOffset(months=1),
\* periods=months_to_pad, freq='ME') holds the month ends of the next months
pad_to_quarter(X, month_in_quarter) ==
    LET months_to_pad == 2 - month_in_quarter
        last_date == X.index[Len(X.index)]
    IN  IF months_to_pad > 0 /\ Len(X.index) > 0
        THEN [index |-> X.index \o [j \in 1..months_to_pad |-> last_date + j],
              values |-> X.values \o [j \in 1..months_to_pad |-> "nan"]]
        ELSE [index |-> X.index, values |-> X.values]

\* UMIDASModel.__init__
NewUMIDASModel == [fitted |-> FALSE, bic_ |-> PosInf, x_padded |-> NoSeries]

\* the state of the instance after fit found no model (lines 98-101)
UnfittedModel(X, month_in_quarter) ==
    [fitted |-> FALSE, bic_ |-> PosInf, x_padded |-> pad_to_quarter(X, month_in_quarter)]

\* the state of the instance after fit kept a model with criterion bic (lines 93-96)
FittedModel(X, month_in_quarter, bic) ==
    [fitted |-> TRUE, bic_ |-> bic, x_padded |-> pad_to_quarter(X, month_in_quarter)]

(***************************************************************************)
(* run_weekly_nowcast: the combination of the results (lines 97-138)       *)
(***************************************************************************)
ResultRow(ind, f, b) == [indicator |-> ind, forecast |-> f, bic |-> b]

ResultBic(rows) == [j \in DOMAIN rows |-> Entry(PosLabel(j - 1), rows[j].bic)]

\* lines 104-107: results_df['bic'] with infinities and nan filled by max_bic + 100
FilledBic(rows) ==
    LET bic == ReplaceInf(ResultBic(rows))
        max_bic == IF AllNull(bic) THEN Num(1) ELSE NanMax(bic)
    IN  FillNa(bic, FAdd(max_bic, Num(100)))

\* lines 109-123: the weights
InlineWeights(rows) ==
    LET bic == FilledBic(rows)
        inverse_bic == Reciprocal(Num(1), bic)
        sum_inverse_bic == SeriesSum(inverse_bic)
        all_zero == \A j \in DOMAIN bic : IsZero(bic[j].value)
    IN  IF ~AllNull(bic) /\ ~all_zero
           /\ ~IsZero(sum_inverse_bic) /\ ~IsInf(sum_inverse_bic)
        THEN DivideBy(inverse_bic, sum_inverse_bic)
        ELSE EqualWeights(Labels(bic))

DetailRow(row, b, w) ==
    [indicator |-> row.indicator, forecast |-> row.forecast, bic |-> b, weight |-> w]

\* results_df after line 125
DetailsOf(rows) ==
    [j \in DOMAIN rows |->
        DetailRow(rows[j], FilledBic(rows)[j].value, InlineWeights(rows)[j].value)]

HasForecast(row) == ~IsNaN(row.forecast)

\* the weighted sum with the 'no valid forecasts' test left out
WeightedSum_NoEmptyTest(details) ==
    LET valid == SelectSeq(details, HasForecast)
    IN  FSumSeq([j \in DOMAIN valid |-> FMul(valid[j].forecast, valid[j].weight)])

\* lines 129-134: the weighted sum over the rows that have a forecast
WeightedSum(details) ==
    LET valid == SelectSeq(details, HasForecast)
    IN  IF Len(valid) > 0
        THEN FSumSeq([j \in DOMAIN valid |-> FMul(valid[j].forecast, valid[j].weight)])
        ELSE NaN

\* lines 97-138: (weighted_forecast, details_df)
CombineResults(rows) ==
    IF Len(rows) > 0
    THEN [weighted_forecast |-> WeightedSum(DetailsOf(rows)), details_df |-> DetailsOf(rows)]
    ELSE [weighted_forecast |-> NaN, details_df |-> << >>]

(***************************************************************************)
(* create_nowcast_report (lines 141-189)                                   *)
(***************************************************************************)
None == [k |-> "none", n |-> 0, d |-> 1]

\* f"{quarter_progress:.1f}%" of ((month_in_quarter + 1) / 3.0) * 100, in tenths
QuarterProgress(month_in_quarter) == ((((month_in_quarter + 1) * 2000) \div 3) + 1) \div 2

create_nowcast_report(forecast, details, dt) ==
    IF IsNaN(forecast)
    THEN [status |-> "No valid forecast generated or no indicators available",
          forecast |-> None, target_quarter |-> 0, target_year |-> 0,
          quarter_progress |-> 0, available_indicators |-> << >>, details |-> << >>]
    ELSE [status |-> "success", forecast |-> forecast,
          target_quarter |-> determine_target_quarter(dt).quarter,
          target_year |-> determine_target_quarter(dt).year,
          quarter_progress |-> QuarterProgress(determine_target_quarter(dt).month_in_quarter),
          available_indicators |->
              get_available_indicators(DefaultMexReleases, DefaultUsReleases, dt),
          details |-> details]

(***************************************************************************)
(* The weekly workflow as a component: one run of create_nowcast_report,   *)
(* which runs run_weekly_nowcast, for one reference date and one           *)
(* dictionary of monthly series.  The estimator (pymidas) is outside the   *)
(* repository: whether a lag combination fits, the criterion of the best   *)
(* fit and the value it predicts are chosen nondeterministically.          *)
(***************************************************************************)
NumWfMonths == 3
MaxLag == 1
MaxLead == 1
SeriesLength == 3

WfDays == {2, 10, 20}
WfDates == { Date(FirstYear, m, d) : m \in 1..NumWfMonths, d \in WfDays }

XKeys == {"business_confidence", "manufacturing_survey"}

\* a monthly series of n observations whose last one is `lag` months before dt
\* (after dt when lag is negative: the dictionary is the caller's, and
\* run_weekly_nowcast takes it as it is)
SeriesEnding(dt, lag, n) ==
    XSeries("Series", [j \in 1..n |-> MonthIndex(dt.year, dt.month) - lag - n + j])

\* what the dictionary can hold under one key
XValues(dt) ==
    { XSeries("list", << >>), XSeries("Series", << >>) }
    \cup { SeriesEnding(dt, lag, SeriesLength) : lag \in (0 - MaxLead)..MaxLag }

XDicts(dt) == UNION { [keys -> XValues(dt)] : keys \in SUBSET XKeys }

FitBicSpace == { Num(-10), Num(0), Num(10), Num(40) }
ForecastSpace == { Num(-1), Num(3) }

InitWorkflow ==
    /\ pc = "wf_start"
    /\ reference_date \in WfDates
    /\ x_monthly_dict \in XDicts(reference_date)
    /\ mex_releases = << >>
    /\ us_releases = << >>
    /\ available = << >>
    /\ raised = FALSE
    /\ target = NoTarget
    /\ next_indicator = 0
    /\ umidas_model = NewUMIDASModel
    /\ results = << >>
    /\ weighted_forecast = NaN
    /\ details_df = << >>
    /\ report = [status |-> "none"]
    /\ IdleCombiner
    /\ IdleOther

\* run_weekly_nowcast lines 33-46
WfResolve ==
    /\ pc = "wf_start"
    /\ mex_releases' = DefaultMexReleases
    /\ us_releases' = DefaultUsReleases
    /\ available' = get_available_indicators(DefaultMexReleases, DefaultUsReleases,
                                             reference_date)
    /\ target' = determine_target_quarter(reference_date)
    /\ results' = << >>
    /\ next_indicator' = 1
    /\ pc' = "wf_loop"
    /\ UNCHANGED <<reference_date, raised, x_monthly_dict, umidas_model,
                   weighted_forecast, details_df, report, combinerVars, otherVars>>

InLoop == pc = "wf_loop" /\ next_indicator <= Len(available)

\* lines 49-50: the indicator has no series in the dictionary
WfSkipIndicator ==
    /\ InLoop
    /\ available[next_indicator] \notin DOMAIN x_monthly_dict
    /\ next_indicator' = next_indicator + 1
    /\ UNCHANGED <<pc, calendarVars, x_monthly_dict, umidas_model, results,
                   weighted_forecast, details_df, report, combinerVars, otherVars>>

\* lines 54-59 without the try of lines 58-63: the exception of fit leaves the function
WfFitRaises_Propagates ==
    /\ InLoop
    /\ available[next_indicator] \in DOMAIN x_monthly_dict
    /\ x_monthly_dict[available[next_indicator]].kind # "Series"
    /\ umidas_model' = NewUMIDASModel
    /\ raised' = TRUE
    /\ pc' = "wf_raised"
    /\ UNCHANGED <<mex_releases, us_releases, reference_date, available, target,
                   x_monthly_dict, next_indicator, results, weighted_forecast,
                   details_df, report, combinerVars, otherVars>>

\* lines 54-63 with umidas.py 26-27: fit raises, the indicator is skipped
WfFitRaises ==
    /\ InLoop
    /\ available[next_indicator] \in DOMAIN x_monthly_dict
    /\ x_monthly_dict[available[next_indicator]].kind # "Series"
    /\ umidas_model' = NewUMIDASModel
    /\ next_indicator' = next_indicator + 1
    /\ UNCHANGED <<pc, calendarVars, x_monthly_dict, results,
                   weighted_forecast, details_df, report, combinerVars, otherVars>>

\* lines 54-59, 88-95 with umidas.py 98-101: no lag combination could be fitted
WfFitNoModel ==
    /\ InLoop
    /\ available[next_indicator] \in DOMAIN x_monthly_dict
    /\ x_monthly_dict[available[next_indicator]].kind = "Series"
    /\ umidas_model' = UnfittedModel(x_monthly_dict[available[next_indicator]],
                                     target.month_in_quarter)
    /\ results' = Append(results, ResultRow(available[next_indicator], NaN, PosInf))
    /\ next_indicator' = next_indicator + 1
    /\ UNCHANGED <<pc, calendarVars, x_monthly_dict,
                   weighted_forecast, details_df, report, combinerVars, otherVars>>

\* lines 54-59 with umidas.py 93-96: the grid search kept a model
WfFitted ==
    /\ InLoop
    /\ available[next_indicator] \in DOMAIN x_monthly_dict
    /\ x_monthly_dict[available[next_indicator]].kind = "Series"
    /\ \E bic \in FitBicSpace :
          umidas_model' = FittedModel(x_monthly_dict[available[next_indicator]],
                                      target.month_in_quarter, bic)
    /\ pc' = "wf_predict"
    /\ UNCHANGED <<calendarVars, x_monthly_dict, next_indicator, results,
                   weighted_forecast, details_df, report, combinerVars, otherVars>>

\* lines 65-87 with umidas.py 155-192: predict and keep the forecast unless nan
WfPredict ==
    /\ pc = "wf_predict"
    /\ \E current_forecast \in
            IF Len(x_monthly_dict[available[next_indicator]].index) = 0
            THEN {NaN} ELSE ForecastSpace \cup {NaN} :
          results' = IF IsNaN(current_forecast) THEN results
                     ELSE Append(results, ResultRow(available[next_indicator],
                                                    current_forecast, umidas_model.bic_))
    /\ next_indicator' = next_indicator + 1
    /\ pc' = "wf_loop"
    /\ UNCHANGED <<calendarVars, x_monthly_dict, umidas_model,
                   weighted_forecast, details_df, report, combinerVars, otherVars>>

\* lines 97-138: the loop is over, the results are combined
WfCombine ==
    /\ pc = "wf_loop"
    /\ next_indicator > Len(available)
    /\ weighted_forecast' = CombineResults(results).weighted_forecast
    /\ details_df' = CombineResults(results).details_df
    /\ pc' = "wf_report"
    /\ UNCHANGED <<calendarVars, x_monthly_dict, next_indicator, umidas_model, results,
                   report, combinerVars, otherVars>>

\* create_nowcast_report lines 153-189
WfReport ==
    /\ pc = "wf_report"
    /\ report' = create_nowcast_report(weighted_forecast, details_df, reference_date)
    /\ pc' = "wf_done"
    /\ UNCHANGED <<calendarVars, x_monthly_dict, next_indicator, umidas_model, results,
                   weighted_forecast, details_df, combinerVars, otherVars>>

NextWorkflow ==
    \/ WfResolve
    \/ WfSkipIndicator
    \/ WfFitRaises
    \/ WfFitNoModel
    \/ WfFitted
    \/ WfPredict
    \/ WfCombine
    \/ WfReport

SpecWorkflow == InitWorkflow /\ [][NextWorkflow]_vars

(***************************************************************************)
(* The two places that weight by the criterion: ForecastCombiner.combine_bic *)
(* and the workflow's own weighting.                                       *)
(***************************************************************************)
InitCriterion == InitCombiner \/ InitWorkflow

NextCriterion == CombineBic \/ NextWorkflow

SpecCriterion == InitCriterion /\ [][NextCriterion]_vars

(***************************************************************************)
(* GDPData.get_gdp_series, as written in data_handling/gdp_management.py   *)
(* and in umidas_mexico.py.  The quarterly series is a list of             *)
(* (quarter, value), a quarter-end timestamp being kept as its quarter     *)
(* number 4 * year + quarter - 1.                                          *)
(***************************************************************************)
QuarterNumber(y, q) == 4 * y + (q - 1)

\* pd.Timestamp(reference_date).to_period('Q')
QuarterOfDate(dt) == QuarterNumber(dt.year, ((dt.month - 1) \div 3) + 1)

Observation(q, v) == [quarter |-> q, value |-> v]

\* Series.sort_index()
SortIndex(series) == SortSeq(series, LAMBDA a, b : a.quarter < b.quarter)

GdpReturns(series) == [raised |-> FALSE, series |-> series]
GdpRaises == [raised |-> TRUE, series |-> << >>]

\* reference_date.month % 3 == 1 and reference_date.day < 25
BeforeRelease(dt) == dt.month % 3 = 1 /\ dt.day < 25

InIndex(series, q) == \E i \in DOMAIN series : series[i].quarter = q

\* get_gdp_series writing last_forecast over the last historical value
\* instead of appending it
get_gdp_series_Overwrites(historical_gdp, last_forecast, dt) ==
    LET previous_quarter_period == QuarterOfDate(dt) - 1
    IN  IF /\ Len(historical_gdp) > 0
           /\ historical_gdp[Len(historical_gdp)].quarter < previous_quarter_period
           /\ last_forecast # None
           /\ BeforeRelease(dt)
        THEN GdpReturns([historical_gdp EXCEPT
                            ![Len(historical_gdp)] =
                                Observation(previous_quarter_period, last_forecast)])
        ELSE GdpReturns(historical_gdp)

\* gdp_management.py lines 34-100 (historical_gdp was sorted by __init__)
get_gdp_series(historical_gdp, last_forecast, dt) ==
    LET gdp_series_copy == historical_gdp
        previous_quarter_period == QuarterOfDate(dt) - 1
    IN  IF /\ Len(gdp_series_copy) > 0
           /\ gdp_series_copy[Len(gdp_series_copy)].quarter < previous_quarter_period
           /\ last_forecast # None
           /\ BeforeRelease(dt)
           /\ ~InIndex(gdp_series_copy, previous_quarter_period)
        THEN GdpReturns(SortIndex(Append(gdp_series_copy,
                                         Observation(previous_quarter_period, last_forecast))))
        ELSE GdpReturns(gdp_series_copy)

\* umidas_mexico.py lines 239-251: gdp_series.iloc[-1] = self.last_forecast
\* (IndexError on an empty series)
get_gdp_series_mexico(historical_gdp, last_forecast, dt) ==
    IF BeforeRelease(dt) /\ last_forecast # None
    THEN IF Len(historical_gdp) = 0 THEN GdpRaises
         ELSE GdpReturns([historical_gdp EXCEPT
                             ![Len(historical_gdp)].value = last_forecast])
    ELSE GdpReturns(historical_gdp)

NumGdpMonths == 4
GdpDays == {10, 24, 25}
GdpDates == { Date(FirstYear, m, d) : m \in 1..NumGdpMonths, d \in GdpDays }

\* the quarters a history may hold: 2023Q3 .. 2024Q1
GdpQuarters == QuarterNumber(FirstYear - 1, 3) .. QuarterNumber(FirstYear, 1)

TrueValue == Fin(15, 10)
ForecastValue == Fin(21, 10)

\* the historical series: any set of the quarters, each with its true value
HistoryOver(qs) ==
    [i \in 1..Cardinality(qs) |->
        Observation(CHOOSE q \in qs : Cardinality({ r \in qs : r < q }) = i - 1,
                    TrueValue)]

GdpHistories == { HistoryOver(qs) : qs \in SUBSET GdpQuarters }

GdpModules == {"gdp_management", "umidas_mexico"}

InitGdp ==
    /\ pc = "gdp_import"
    /\ \E module \in GdpModules, h \in GdpHistories, f \in {None, ForecastValue} :
          gdp_data = [module |-> module, historical_gdp |-> h, last_forecast |-> f]
    /\ gdp_series = GdpReturns(<< >>)
    /\ reference_date \in GdpDates
    /\ mex_releases = << >> /\ us_releases = << >>
    /\ available = << >>
    /\ raised = FALSE
    /\ target = NoTarget
    /\ IdleCombiner
    /\ IdleWorkflow
    /\ IdleMetrics
    /\ IdleUpdate
    /\ IdleRest

\* gdp_management.py line 6 names Optional, which the module imports on line
\* 102 only: where annotations are evaluated when the def runs, the import of
\* the module raises NameError
GdpImportFails ==
    /\ pc = "gdp_import"
    /\ gdp_data.module = "gdp_management"
    /\ pc' = "gdp_import_error"
    /\ gdp_series' = GdpRaises
    /\ UNCHANGED <<gdp_data, calendarVars, combinerVars, workflowVars, metricVars,
                   update_call, restVars>>

\* the module imports and GDPData(historical_gdp, last_forecast) is built
GdpImported ==
    /\ pc = "gdp_import"
    /\ pc' = "gdp_ready"
    /\ UNCHANGED <<gdpVars, calendarVars, combinerVars, workflowVars, metricVars,
                   update_call, restVars>>

GetGdpSeries ==
    /\ pc = "gdp_ready"
    /\ gdp_series' =
          IF gdp_data.module = "gdp_management"
          THEN get_gdp_series(gdp_data.historical_gdp, gdp_data.last_forecast,
                              reference_date)
          ELSE get_gdp_series_mexico(gdp_data.historical_gdp, gdp_data.last_forecast,
                                     reference_date)
    /\ pc' = "gdp_done"
    /\ UNCHANGED <<gdp_data, calendarVars, combinerVars, workflowVars, metricVars,
                   update_call, restVars>>

\* the same object asked again for the same reference date
GetGdpSeriesAgain ==
    /\ pc = "gdp_done"
    /\ ~ gdp_series.raised
    /\ gdp_series' =
          IF gdp_data.module = "gdp_management"
          THEN get_gdp_series(gdp_data.historical_gdp, gdp_data.last_forecast,
                              reference_date)
          ELSE get_gdp_series_mexico(gdp_data.historical_gdp, gdp_data.last_forecast,
                                     reference_date)
    /\ pc' = "gdp_again"
    /\ UNCHANGED <<gdp_data, calendarVars, combinerVars, workflowVars, metricVars,
                   update_call, restVars>>

NextGdp == GdpImportFails \/ GdpImported \/ GetGdpSeries \/ GetGdpSeriesAgain

SpecGdp == InitGdp /\ [][NextGdp]_vars

(***************************************************************************)
(* UMIDASModel.fit: the grid search over the lag pairs (umidas.py 56-103). *)
(* pymidas is not part of the repository: what Umidas(y, x_padded, k,      *)
(* ylag).fit() does is a table over the lag pairs, fixed for given         *)
(* (X, y, month_in_quarter).  A model object is known by the inputs and    *)
(* the lags it was estimated with, and so are its parameters.              *)
(***************************************************************************)
MaxYLags == 1

MaxXLags == 0

\* the lag pairs in the order of the two loops (lines 60-61)
LagPairs ==
    [i \in 1..((MaxYLags + 1) * (MaxXLags + 1)) |->
        [ylag |-> (i - 1) \div (MaxXLags + 1), k |-> (i - 1) % (MaxXLags + 1)]]

\* Umidas(...) or model.fit() raises (lines 88-90)
EstimatorRaises == [kind |-> "raises", bic |-> NaN]

\* the model has no residuals (line 75)
NoResiduals == [kind |-> "no_residuals", bic |-> NaN]

\* the model is estimated and its criterion is bic (lines 77-82)
Estimated(bic) == [kind |-> "estimated", bic |-> Fin(bic, 1)]

\* the residuals hold a nan: ssr and the criterion are nan (lines 79-82)
EstimatedNaN == [kind |-> "estimated", bic |-> NaN]

EstimatorOutcomes ==
    {EstimatorRaises, NoResiduals, Estimated(0 - 5), Estimated(3), EstimatedNaN}

EstimatorTables == [DOMAIN LagPairs -> EstimatorOutcomes]

UmidasObject(inputs, pair) == [inputs |-> inputs, ylag |-> pair.ylag, k |-> pair.k]

NoUmidasObject == [inputs |-> "none", ylag |-> 0, k |-> 0]

\* UMIDASModel.__init__ (lines 13-15)
NewInstance == [model_ |-> NoUmidasObject, bic_ |-> PosInf, params_ |-> NoUmidasObject]

\* line 56, read by the search with the instance at hand
BestStart_InstanceBic(instance) == instance.bic_

\* line 56: best_bic_local = np.inf
BestStart(instance) == PosInf

\* lines 71-84 with the comparison left out: every estimated candidate is kept
Keeps_EveryEstimated(o, best) == o.kind = "estimated"

\* lines 71-84: the candidate o replaces the best one so far
Keeps(o, best) == o.kind = "estimated" /\ FLt(o.bic, best.bic)

\* lines 62-90 for the i-th lag pair: the best one after it
Evaluate(table, inputs, i, best) ==
    IF Keeps(table[i], best)
    THEN [bic |-> table[i].bic, model |-> UmidasObject(inputs, LagPairs[i])]
    ELSE best

\* lines 60-90 from the i-th lag pair on: best is (best_bic_local, best_model_local)
RECURSIVE grid_search(_, _, _, _)
grid_search(table, inputs, i, best) ==
    IF i > Len(LagPairs) THEN best
    ELSE grid_search(table, inputs, i + 1, Evaluate(table, inputs, i, best))

\* UMIDASModel.fit keeping the model of an earlier fit when no candidate succeeds
fit_KeepsEarlierModel(instance, table, inputs) ==
    LET best == grid_search(table, inputs, 1,
                            [bic |-> PosInf, model |-> NoUmidasObject])
    IN  IF best.model # NoUmidasObject
        THEN [model_ |-> best.model, bic_ |-> best.bic, params_ |-> best.model]
        ELSE instance

\* UMIDASModel.fit (lines 56-103): the instance it leaves
fit(instance, table, inputs) ==
    LET best == grid_search(table, inputs, 1,
                            [bic |-> BestStart(instance), model |-> NoUmidasObject])
    IN  IF best.model # NoUmidasObject
        THEN [model_ |-> best.model, bic_ |-> best.bic, params_ |-> best.model]
        ELSE [model_ |-> NoUmidasObject, bic_ |-> PosInf, params_ |-> NoUmidasObject]

NoFit == [inputs |-> "none"]

NoPredict == [X_pred |-> "none"]

\* the checks that open UMIDASModel.predict (lines 119-124): a ValueError
\* for an instance without a model, for an X_pred that is no Series and for
\* a month_in_quarter outside 0..2
predict_raises(instance, X_pred, month_in_quarter) ==
    \/ instance.model_ = NoUmidasObject
    \/ X_pred # "Series"
    \/ month_in_quarter \notin {0, 1, 2}

InitFit ==
    /\ pc = "fit"
    /\ estimator \in EstimatorTables
    /\ fitted_instance = NewInstance
    /\ first_fit = NoFit
    /\ fit_call = NoFit
    /\ predict_call = NoPredict
    /\ IdleRelease
    /\ IdleOrder
    /\ IdleMetrics
    /\ IdleUpdate
    /\ IdleGdp
    /\ IdleCalendar
    /\ IdleCombiner
    /\ IdleWorkflow

\* a new UMIDASModel is constructed
Construct ==
    /\ pc = "fit"
    /\ fitted_instance' = NewInstance
    /\ fit_call' = NoFit
    /\ predict_call' = NoPredict
    /\ UNCHANGED <<pc, estimator, first_fit, calendarVars, combinerVars, workflowVars,
                   metricVars, update_call, gdpVars, releaseVars, orderVars>>

\* fit(X, y, month_in_quarter) on the inputs the estimator table stands for
FitSame ==
    /\ pc = "fit"
    /\ fitted_instance' = fit(fitted_instance, estimator, "same")
    /\ first_fit' = IF first_fit = NoFit
                    THEN [inputs |-> "same", result |-> fitted_instance']
                    ELSE first_fit
    /\ fit_call' = [inputs |-> "same", before |-> fitted_instance,
                    repeated |-> first_fit # NoFit]
    /\ predict_call' = NoPredict
    /\ UNCHANGED <<pc, estimator, calendarVars, combinerVars, workflowVars, metricVars,
                   update_call, gdpVars, releaseVars, orderVars>>

\* fit on other inputs, for which the estimator does the same at every lag pair
FitOther ==
    /\ pc = "fit"
    /\ \E o \in EstimatorOutcomes :
          /\ fitted_instance' = fit(fitted_instance, [i \in DOMAIN LagPairs |-> o], "other")
          /\ fit_call' = [inputs |-> "other", before |-> fitted_instance,
                          repeated |-> FALSE,
                          estimated |-> Keeps(o, [bic |-> PosInf])]
    /\ predict_call' = NoPredict
    /\ UNCHANGED <<pc, estimator, first_fit, calendarVars, combinerVars, workflowVars,
                   metricVars, update_call, gdpVars, releaseVars, orderVars>>

NextFit == Construct \/ FitSame \/ FitOther

SpecFit == InitFit /\ [][NextFit]_vars

\* the (X_pred, month_in_quarter) of a predict call
PredictArguments == { <<"Series", 1>>, <<"list", 1>>, <<"Series", 3>> }

\* predict(X_pred, month_in_quarter) on the instance as it is
Predict ==
    /\ pc = "fit"
    /\ \E arguments \in PredictArguments :
          predict_call' = [X_pred |-> arguments[1], month_in_quarter |-> arguments[2],
                           raised |-> predict_raises(fitted_instance, arguments[1],
                                                     arguments[2])]
    /\ pc' = "predicted"
    /\ UNCHANGED <<estimator, fitted_instance, first_fit, fit_call, calendarVars,
                   combinerVars, workflowVars, metricVars, update_call, gdpVars,
                   releaseVars, orderVars>>

NextPredict == NextFit \/ Predict

SpecPredict == InitFit /\ [][NextPredict]_vars

(***************************************************************************)
(* The lag grid taken in any order: the body of the loops of fit           *)
(* (umidas.py 62-90) is applied to the candidates one at a time, each      *)
(* once, in an order that is free.                                         *)
(***************************************************************************)
NothingRetained == [bic |-> PosInf, model |-> NoUmidasObject]

\* a reduce that returns any candidate with a finite criterion
MinimalCandidates_AnyScored(table) ==
    { i \in DOMAIN LagPairs : Keeps(table[i], NothingRetained) }

\* the candidates a min-reduce over the evaluated grid can return: line 84
\* holds between each of them and no other candidate
MinimalCandidates(table) ==
    { i \in DOMAIN LagPairs :
        /\ Keeps(table[i], NothingRetained)
        /\ \A j \in DOMAIN LagPairs :
              ~Keeps(table[j], [bic |-> table[i].bic, model |-> NoUmidasObject]) }

InitOrder ==
    /\ pc = "order"
    /\ estimator \in EstimatorTables
    /\ fitted_instance = NewInstance
    /\ first_fit = NoFit
    /\ fit_call = NoFit
    /\ predict_call = NoPredict
    /\ evaluated = {}
    /\ reduced = NothingRetained
    /\ out_of_order = FALSE
    /\ IdleRelease
    /\ IdleMetrics
    /\ IdleUpdate
    /\ IdleGdp
    /\ IdleCalendar
    /\ IdleCombiner
    /\ IdleWorkflow

EvaluateCandidate ==
    /\ pc = "order"
    /\ \E i \in DOMAIN LagPairs \ evaluated :
          /\ reduced' = Evaluate(estimator, "same", i, reduced)
          /\ evaluated' = evaluated \cup {i}
          /\ out_of_order' = (out_of_order \/ \E j \in DOMAIN LagPairs \ evaluated : j < i)
    /\ UNCHANGED <<pc, estimator, fitted_instance, first_fit, fit_call, predict_call, releaseVars,
                   calendarVars, combinerVars, workflowVars, metricVars, update_call, gdpVars>>

\* the candidates are evaluated concurrently and a min-reduce picks one of
\* those with the lowest criterion
MinReduce ==
    /\ pc = "order"
    /\ evaluated = {}
    /\ IF MinimalCandidates(estimator) = {} THEN reduced' = NothingRetained
       ELSE \E i \in MinimalCandidates(estimator) :
               reduced' = [bic |-> estimator[i].bic,
                           model |-> UmidasObject("same", LagPairs[i])]
    /\ evaluated' = DOMAIN LagPairs
    /\ out_of_order' = TRUE
    /\ pc' = "order_reduced"
    /\ UNCHANGED <<estimator, fitted_instance, first_fit, fit_call, predict_call, releaseVars,
                   calendarVars, combinerVars, workflowVars, metricVars, update_call, gdpVars>>

NextOrder == EvaluateCandidate \/ MinReduce

SpecOrder == InitOrder /\ [][NextOrder]_vars

(***************************************************************************)
(* generate_release_calendar (utils/calendar_utils.py).  A value of a      *)
(* release_schedule is an int, a float, a str or None; a str is the list   *)
(* of its characters.                                                      *)
(***************************************************************************)
MaxVariables == 2

MaxQuarters == 2

\* date.fromordinal(ordinal), for an ordinal within a year of near.year
FromOrdinal(ordinal, near) ==
    LET y == CHOOSE yy \in (near.year - 1)..(near.year + 1) :
                 /\ ToOrdinal(Date(yy, 1, 1)) <= ordinal
                 /\ ordinal < ToOrdinal(Date(yy + 1, 1, 1))
        mo == CHOOSE mm \in 1..12 :
                 /\ ToOrdinal(Date(y, mm, 1)) <= ordinal
                 /\ ordinal < ToOrdinal(Date(y, mm, 1)) + DaysInMonth(y, mm)
    IN  Date(y, mo, ordinal - ToOrdinal(Date(y, mo, 1)) + 1)

\* dt + timedelta(days=n), for less than a year of days
PlusDays(dt, n) == FromOrdinal(ToOrdinal(dt) + n, dt)

AbsentKey == [type |-> "absent"]
NoneValue == [type |-> "None"]
IntValue(n) == [type |-> "int", value |-> n]
FloatValue(n, d) == [type |-> "float", n |-> n, d |-> d]
StrValue(chars) == [type |-> "str", chars |-> chars]

\* dict.get(key): None when the key is absent (lines 38-39)
DictGet(v) == IF v = AbsentKey THEN NoneValue ELSE v

DigitOf(c) ==
    CASE c = "0" -> 0 [] c = "1" -> 1 [] c = "2" -> 2 [] c = "3" -> 3 [] c = "4" -> 4
      [] c = "5" -> 5 [] c = "6" -> 6 [] c = "7" -> 7 [] c = "8" -> 8 [] c = "9" -> 9
      [] OTHER -> 0 - 1

RECURSIVE ParseDigits(_, _)
ParseDigits(chars, acc) ==
    IF chars = << >> THEN acc
    ELSE ParseDigits(Tail(chars), 10 * acc + DigitOf(Head(chars)))

ValueError == [raised |-> TRUE, value |-> 0]

Converted(n) == [raised |-> FALSE, value |-> n]

\* int(v) of lines 104-105: a float is truncated towards zero, a str is
\* parsed as decimal digits, anything else a str holds is a ValueError
int(v) ==
    CASE v.type = "int" -> Converted(v.value)
      [] v.type = "float" ->
            Converted(IF v.n >= 0 THEN v.n \div v.d ELSE 0 - ((0 - v.n) \div v.d))
      [] v.type = "str" ->
            IF v.chars # << >> /\ \A i \in DOMAIN v.chars : DigitOf(v.chars[i]) >= 0
            THEN Converted(ParseDigits(v.chars, 0))
            ELSE ValueError
      [] OTHER -> ValueError

\* lines 27-32
RecognizedQuarters == {"Q1", "Q2", "Q3", "Q4"}

quarter_start_dates(year, quarter_str) ==
    CASE quarter_str = "Q1" -> Date(year, 1, 1)
      [] quarter_str = "Q2" -> Date(year, 4, 1)
      [] quarter_str = "Q3" -> Date(year, 7, 1)
      [] quarter_str = "Q4" -> Date(year, 10, 1)

\* the metadata of a variable: with or without the key 'release_schedule'
NoSchedule == [release_schedule |-> [type |-> "absent"]]
ScheduleNotADict == [release_schedule |-> [type |-> "str"]]
ReleaseSchedule(week, day) ==
    [release_schedule |-> [type |-> "dict", week_of_quarter |-> week, day_of_month |-> day]]

\* line 104
week_offset_days(week_of_quarter) == (week_of_quarter - 1) * 7

\* line 105 without the adjustment
day_offset_Unadjusted(day_of_month) == day_of_month

\* line 105
day_offset(day_of_month) == day_of_month - 1

\* lines 45-120 for one variable: the entries appended for the quarters from position j on
RECURSIVE QuarterEntries(_, _, _, _, _, _)
QuarterEntries(variable_name, week_of_quarter, day_of_month, year, qs, j) ==
    IF j > Len(qs) THEN << >>
    ELSE LET rest == QuarterEntries(variable_name, week_of_quarter, day_of_month,
                                    year, qs, j + 1)
             w == int(week_of_quarter)
             d == int(day_of_month)
         IN  IF qs[j] \notin RecognizedQuarters THEN rest
             ELSE IF w.raised \/ d.raised THEN rest
             ELSE << [variable |-> variable_name,
                      quarter |-> qs[j],
                      release_date |-> PlusDays(quarter_start_dates(year, qs[j]),
                                                week_offset_days(w.value) + day_offset(d.value))] >>
                  \o rest

\* lines 37-123 for one variable
VariableEntries(variable_name, info, year, qs) ==
    IF info.release_schedule.type # "dict" THEN << >>
    ELSE LET week_of_quarter == DictGet(info.release_schedule.week_of_quarter)
             day_of_month == DictGet(info.release_schedule.day_of_month)
         IN  IF week_of_quarter = NoneValue \/ day_of_month = NoneValue THEN << >>
             ELSE QuarterEntries(variable_name, week_of_quarter, day_of_month, year, qs, 1)

\* lines 34-125: the rows of the returned DataFrame, in order
RECURSIVE ReleaseEntries(_, _, _, _)
ReleaseEntries(config, year, qs, i) ==
    IF i > Len(config) THEN << >>
    ELSE VariableEntries(config[i].variable_name, config[i].info, year, qs)
         \o ReleaseEntries(config, year, qs, i + 1)

generate_release_calendar(config, year, qs) == ReleaseEntries(config, year, qs, 1)

VariableNames == << "indicator_a", "indicator_b", "indicator_c" >>

ScheduleInfos ==
    { NoSchedule, ScheduleNotADict,
      ReleaseSchedule(IntValue(2), IntValue(10)),
      ReleaseSchedule(IntValue(9), IntValue(10)),
      ReleaseSchedule(IntValue(0), IntValue(1)),
      ReleaseSchedule(StrValue(<< "3" >>), FloatValue(5, 2)),
      ReleaseSchedule(StrValue(<< "m", "i", "d" >>), IntValue(10)),
      ReleaseSchedule(NoneValue, IntValue(10)),
      ReleaseSchedule(AbsentKey, IntValue(10)),
      ReleaseSchedule(IntValue(2), AbsentKey) }

\* dicts of up to MaxVariables variables, in insertion order
ReleaseConfigs ==
    UNION { { [i \in 1..n |-> [variable_name |-> VariableNames[i], info |-> infos[i]]] :
                infos \in [1..n -> ScheduleInfos] } : n \in 0..MaxVariables }

QuarterStrings == {"Q1", "Q4", "Q5"}

QuarterLists == UNION { [1..n -> QuarterStrings] : n \in 0..MaxQuarters }

\* 2023 is the year of the test, 2024 a leap year
TargetYears == {2000 + 23, 2000 + 24}

InitRelease ==
    /\ pc = "release"
    /\ config_variable_info \in ReleaseConfigs
    /\ target_year \in TargetYears
    /\ quarters \in QuarterLists
    /\ release_calendar = << >>
    /\ IdleFit
    /\ IdleOrder
    /\ IdleMetrics
    /\ IdleUpdate
    /\ IdleGdp
    /\ IdleCalendar
    /\ IdleCombiner
    /\ IdleWorkflow

GenerateReleaseCalendar ==
    /\ pc = "release"
    /\ release_calendar' = generate_release_calendar(config_variable_info, target_year,
                                                     quarters)
    /\ pc' = "release_done"
    /\ UNCHANGED <<config_variable_info, target_year, quarters, fitVars, orderVars,
                   calendarVars, combinerVars, workflowVars, metricVars, update_call, gdpVars>>

NextRelease == GenerateReleaseCalendar

SpecRelease == InitRelease /\ [][NextRelease]_vars

(***************************************************************************)
(* Claims about the release calendar and the target quarter.               *)
(***************************************************************************)
InList(x, list) == \E i \in DOMAIN list : list[i] = x

\* the latest call was made with a date and returned
Returned == pc = "calendar" /\ reference_date # NoDate /\ ~raised

IsExplicitPair(schedule) == HasKey(schedule, "week") /\ HasKey(schedule, "day")

\* the week of the month a day lies in, said without a division
WeekHolding(day) == CHOOSE w \in 1..5 : 7 * (w - 1) < day /\ day <= 7 * w

ClaimedAvailable(schedule, day) ==
    \/ WeekHolding(day) > schedule.week
    \/ (WeekHolding(day) = schedule.week /\ day >= schedule.day)

\* C1: after get_available_indicators(reference_date) returns, every indicator
\* with an explicit {week, day} rule (the last-Tuesday rule of the US table set
\* aside) is in the result iff week_of_month > week, or week_of_month = week
\* and reference_date.day >= day.
C1_ExplicitRule ==
    Returned =>
      /\ \A i \in DOMAIN mex_releases :
            IsExplicitPair(mex_releases[i].schedule) =>
              (InList(mex_releases[i].name, available)
                 <=> ClaimedAvailable(mex_releases[i].schedule, reference_date.day))
      /\ \A i \in DOMAIN us_releases :
            (IsExplicitPair(us_releases[i].schedule)
               /\ ~(us_releases[i].schedule.week = 4 /\ us_releases[i].schedule.day = -1)) =>
              (InList(UsName(us_releases[i].name), available)
                 <=> ClaimedAvailable(us_releases[i].schedule, reference_date.day))

\* a call on the 16th with a rule {week 3, day 16}: same week, day just reached
C1_Witness ==
    /\ Returned
    /\ reference_date.day = 16
    /\ mex_releases = << Release("probe", Schedule(3, 16)) >>
    /\ InList("probe", available)
    /\ InList("us_probe", available)

\* the object is a DataCalendar() or a MexicoDataCalendar() as constructed
DefaultCalendar ==
    /\ mex_releases \in {DefaultMexReleases, MexicoMexReleases}
    /\ us_releases = DefaultUsReleases

\* C26: with the default tables of DataCalendar and MexicoDataCalendar, an
\* indicator with an explicit {week, day} rule is never in the result for a
\* reference date whose day of the month is before the rule's day.
C26_Original ==
    (Returned /\ DefaultCalendar) =>
      /\ \A i \in DOMAIN mex_releases :
            (IsExplicitPair(mex_releases[i].schedule)
               /\ InList(mex_releases[i].name, available)) =>
              reference_date.day >= mex_releases[i].schedule.day
      /\ \A i \in DOMAIN us_releases :
            (IsExplicitPair(us_releases[i].schedule)
               /\ InList(UsName(us_releases[i].name), available)) =>
              reference_date.day >= us_releases[i].schedule.day

\* DataCalendar() asked on the 8th: private_consumption, whose rule is
\* {week 1, day 15}, is in the result
C26_Witness ==
    /\ Returned
    /\ mex_releases = DefaultMexReleases
    /\ us_releases = DefaultUsReleases
    /\ reference_date.day = 8
    /\ InList("private_consumption", available)

\* C2: from one returned call to a later call in the same calendar month, every
\* indicator that was available stays available.
C2_Monotonic ==
    [][ ( /\ Returned /\ ~raised'
          /\ reference_date'.year = reference_date.year
          /\ reference_date'.month = reference_date.month
          /\ reference_date'.day > reference_date.day )
        => \A i \in DOMAIN available : InList(available[i], available') ]_vars

\* an indicator under the last-Tuesday rule is available and the month has later days
C2_Witness ==
    /\ Returned
    /\ InList("us_consumer_confidence", available)
    /\ InList("trade_balance_prelim", available)
    /\ reference_date.day < DaysInMonth(reference_date.year, reference_date.month)

\* a release rule that has neither a week/day pair nor a relative pattern: no 'day'
IsMalformed(schedule) == ~HasKey(schedule, "day")

HasMalformedRule ==
    \/ \E i \in DOMAIN mex_releases : IsMalformed(mex_releases[i].schedule)
    \/ \E i \in DOMAIN us_releases : IsMalformed(us_releases[i].schedule)

C4_TargetQuarter ==
    (pc = "dates" /\ target # NoTarget) =>
      /\ target.quarter \in 1..4
      /\ target.month_in_quarter \in 0..2
      /\ 3 * (target.quarter - 1) + target.month_in_quarter + 1 = reference_date.month
      /\ target.year = reference_date.year

\* 31 December: the last month of the last quarter
C4_Witness ==
    /\ pc = "dates"
    /\ reference_date.month = 12 /\ reference_date.day = 31
    /\ target.quarter = 4 /\ target.month_in_quarter = 2

(***************************************************************************)
(* Claims about the padding done by UMIDASModel.fit.                       *)
(***************************************************************************)
\* the three months of a target quarter
QuarterMonths(t) ==
    [j \in 1..3 |-> MonthIndex(t.year, 3 * (t.quarter - 1) + j)]

LastThree(index) == SubSeq(index, Len(index) - 2, Len(index))

\* C5: after the padding in UMIDASModel.fit the series ends with exactly the
\* three months of the target quarter, whatever month_in_quarter is and however
\* many months of the indicator have been published.
C5_PaddedToQuarter ==
    (pc = "wf_predict") =>
        /\ Len(umidas_model.x_padded.index) >= 3
        /\ LastThree(umidas_model.x_padded.index) = QuarterMonths(target)

\* a series whose last observation is the month before the reference month
C5_Witness ==
    /\ pc = "wf_predict"
    /\ reference_date = Date(FirstYear, 2, 20)
    /\ available[next_indicator] = "manufacturing_survey"
    /\ x_monthly_dict["manufacturing_survey"] = SeriesEnding(reference_date, 1, SeriesLength)
    /\ umidas_model.x_padded.index[Len(umidas_model.x_padded.index)]
           = MonthIndex(FirstYear, 2)

(***************************************************************************)
(* Claims about the combination strategies.                                *)
(***************************************************************************)
StrategyCalled == pc = "combiner" /\ strategy.name # "none"

NonNegative(w) == FLe(Num(0), w)

\* C6: for each of the six strategies, on a non-empty indicator set, every
\* returned weight is >= 0 and the returned weights sum to 1.
C6_WeightsNonNegSumOne ==
    (StrategyCalled /\ Len(forecasts_df.rows) > 0) =>
        /\ outcome = "returned"
        /\ \A i \in DOMAIN returned_weights : NonNegative(returned_weights[i].value)
        /\ FSumSeq(Values(returned_weights)) = Num(1)

\* combine_bic on criteria -10 and 40
C6_Witness ==
    /\ StrategyCalled
    /\ strategy.name = "combine_bic"
    /\ Len(forecasts_df.rows) = 2
    /\ forecasts_df.rows[1].bic = Num(-10)
    /\ forecasts_df.rows[2].bic = Num(40)
    /\ Values(returned_weights) = << Fin(4, 3), Fin(-1, 3) >>

\* the weight the claim gives criterion i among the criteria cs
InverseShare(cs, i) ==
    FDiv(FDiv(Num(1), cs[i]), FSumSeq([j \in DOMAIN cs |-> FDiv(Num(1), cs[j])]))

InverseWeighted(cs, ws) ==
    /\ Len(ws) = Len(cs)
    /\ \A i \in DOMAIN cs : ws[i] = InverseShare(cs, i)
    /\ \A i, j \in DOMAIN cs : FMul(ws[i], cs[i]) = FMul(ws[j], cs[j])

\* criteria on which the formula is defined
Regular(cs) ==
    /\ Len(cs) > 0
    /\ \A i \in DOMAIN cs : IsFin(cs[i]) /\ ~IsZero(cs[i])
    /\ ~IsZero(FSumSeq([j \in DOMAIN cs |-> FDiv(Num(1), cs[j])]))

CombineBicReturned ==
    /\ pc = "combiner" /\ strategy.name = "combine_bic"
    /\ "bic" \in forecasts_df.columns /\ Len(forecasts_df.rows) > 0

TableCriteria == [i \in DOMAIN forecasts_df.rows |-> forecasts_df.rows[i].bic]

WorkflowWeighted == pc \in {"wf_report", "wf_done"} /\ Len(results) > 0

ResultCriteria == [i \in DOMAIN results |-> results[i].bic]

DetailWeights == [i \in DOMAIN details_df |-> details_df[i].weight]

\* C7 as stated: combine_bic and the workflow's weighting give each indicator
\* the weight (1/criterion_i) / sum_j (1/criterion_j), whatever the criteria.
C7_Original ==
    /\ CombineBicReturned =>
          outcome = "returned" /\ InverseWeighted(TableCriteria, Values(returned_weights))
    /\ WorkflowWeighted => InverseWeighted(ResultCriteria, DetailWeights)

\* the keys of the weights are the input's indicator names, or the input's
\* row labels, one weight for each
KeysMatch(weights, indicators) ==
    /\ Len(weights) = Len(indicators)
    /\ \/ Labels(weights) = indicators
       \/ Labels(weights) = [i \in DOMAIN indicators |-> PosLabel(i - 1)]

\* C27: a strategy that returns for a table with at least one indicator
\* returns exactly one weight per indicator of the table, keyed as the table
\* is, also when only some of the indicators have a history.
C27_Original ==
    (StrategyCalled /\ outcome = "returned" /\ Len(IndicatorsOf(forecasts_df)) > 0) =>
        KeysMatch(returned_weights, IndicatorsOf(forecasts_df))

\* combine_rmse for the indicators A and B when only A has a history:
\* a single weight, 1, keyed A
C27_Witness ==
    /\ StrategyCalled
    /\ strategy.name = "combine_rmse"
    /\ outcome = "returned"
    /\ IndicatorsOf(forecasts_df) = << "A", "B" >>
    /\ DOMAIN history = {"A"}
    /\ returned_weights = << Entry("A", Num(1)) >>

\* C7: when every criterion is finite and non-zero and the reciprocals do not
\* sum to zero, combine_bic and the workflow's weighting give each indicator
\* the weight (1/criterion_i) / sum_j (1/criterion_j), so that weight times
\* criterion is the same for all; criteria 10 and 40 give 4/5 and 1/5.
C7_InverseCriterionWeights ==
    /\ (CombineBicReturned /\ Regular(TableCriteria)) =>
          /\ outcome = "returned"
          /\ InverseWeighted(TableCriteria, Values(returned_weights))
          /\ TableCriteria = << Num(10), Num(40) >> =>
                Values(returned_weights) = << Fin(4, 5), Fin(1, 5) >>
    /\ (WorkflowWeighted /\ Regular(ResultCriteria)) =>
          /\ InverseWeighted(ResultCriteria, DetailWeights)
          /\ ResultCriteria = << Num(10), Num(40) >> =>
                DetailWeights = << Fin(4, 5), Fin(1, 5) >>

\* combine_bic on criteria 10 and 40
C7_Witness ==
    /\ CombineBicReturned
    /\ TableCriteria = << Num(10), Num(40) >>
    /\ outcome = "returned"
    /\ Values(returned_weights) = << Fin(4, 5), Fin(1, 5) >>

\* C10: every strategy called with an empty forecasts table returns an empty
\* weighting: no weight entries and no exception.
C10_EmptyTableEmptyWeights ==
    (StrategyCalled /\ Len(forecasts_df.rows) = 0) =>
        /\ outcome = "returned"
        /\ Len(returned_weights) = 0

\* combine_adaptive on a table with no rows
C10_Witness ==
    /\ StrategyCalled
    /\ strategy.name = "combine_adaptive"
    /\ Len(forecasts_df.rows) = 0
    /\ outcome = "returned"
    /\ Len(returned_weights) = 1

(***************************************************************************)
(* Claims about the weekly workflow and its report.                        *)
(***************************************************************************)
FailedFit(row) == IsNaN(row.forecast) /\ IsInf(row.bic)

Combined == pc \in {"wf_report", "wf_done"}

ValidRows(rows) == SelectSeq(rows, HasForecast)

\* C8: an indicator for which no lag combination could be fitted is absent
\* from the combination: it gets no weight, and the weights of the indicators
\* that produced a forecast sum to 1.
C8_FailedFitAbsent ==
    (Combined /\ \E i \in DOMAIN results : FailedFit(results[i])) =>
        /\ \A i \in DOMAIN details_df :
              FailedFit(results[i]) => IsZero(details_df[i].weight)
        /\ ValidRows(details_df) # << >> =>
              FSumSeq([i \in DOMAIN ValidRows(details_df) |->
                          ValidRows(details_df)[i].weight]) = Num(1)

\* one indicator with criterion 10 and forecast 3, one whose fit failed
C8_Witness ==
    /\ Combined
    /\ Len(results) = 2
    /\ results[1] = ResultRow("business_confidence", Num(3), Num(10))
    /\ FailedFit(results[2])
    /\ DetailWeights = << Fin(11, 12), Fin(1, 12) >>
    /\ weighted_forecast = Fin(11, 4)

\* the forecasts that entered the weighted sum
ContributingForecasts ==
    { ValidRows(results)[i].forecast : i \in DOMAIN ValidRows(results) }

\* C28: a combined forecast that is not NaN lies between the smallest and
\* the largest of the forecasts it was combined from, whatever the criteria
\* of the indicators of the round are.
C28_Original ==
    (Combined /\ ~ IsNaN(weighted_forecast)) =>
        /\ \E low \in ContributingForecasts : FLe(low, weighted_forecast)
        /\ \E high \in ContributingForecasts : FLe(weighted_forecast, high)

\* forecasts 3 and -1 with criteria -10 and 40: the weights are 4/3 and
\* -1/3, the combined forecast 13/3
C28_Witness ==
    /\ Combined
    /\ Len(results) = 2
    /\ results[1] = ResultRow("business_confidence", Num(3), Num(-10))
    /\ results[2] = ResultRow("manufacturing_survey", Num(-1), Num(40))
    /\ DetailWeights = << Fin(4, 3), Fin(-1, 3) >>
    /\ weighted_forecast = Fin(13, 3)

\* C9: when no indicator produced a forecast the report's status is not
\* 'success' and its forecast is None; a report with status 'success' carries
\* a finite forecast combined from at least one indicator's forecast.
C9_NoForecastReported ==
    (pc = "wf_done") =>
        /\ ValidRows(results) = << >> =>
              report.status # "success" /\ report.forecast = None
        /\ report.status = "success" =>
              IsFin(report.forecast) /\ ValidRows(results) # << >>

\* every fit failed: rows exist and none carries a forecast
C9_Witness ==
    /\ pc = "wf_done"
    /\ Len(results) > 0
    /\ ValidRows(results) = << >>
    /\ report.status # "success"
    /\ report.forecast = None

(***************************************************************************)
(* Claims about ForecastHistory and the history table.                     *)
(***************************************************************************)
\* C11: on a history without observations calculate_rmse and calculate_mae
\* return +infinity for every window; calculate_directional_accuracy returns
\* exactly 1/2 on fewer than 2 observations, for every window.
C11_EmptyHistoryMetrics ==
    (pc = "metrics" /\ metric_call.name # "none") =>
        /\ (metric_call.name \in {"calculate_rmse", "calculate_mae"}
            /\ Len(forecast_history.forecasts) = 0) => metric_call.value = PosInf
        /\ (metric_call.name = "calculate_directional_accuracy"
            /\ Len(forecast_history.forecasts) < 2) => metric_call.value = Fin(1, 2)

\* calculate_rmse(window = 2) was asked of an empty history
C11_Witness ==
    /\ pc = "metrics"
    /\ metric_call.name = "calculate_rmse"
    /\ metric_call.window = 2
    /\ Len(forecast_history.forecasts) = 0
    /\ metric_call.value = PosInf

(***************************************************************************)
(* Claims about thick modeling and the regression-based combination.       *)
(***************************************************************************)
NamedCall(name) ==
    /\ pc = "combiner" /\ strategy.name = name
    /\ "indicator" \in forecasts_df.columns /\ Len(forecasts_df.rows) > 0

Positions == DOMAIN forecasts_df.rows

IndicatorAt(i) == forecasts_df.rows[i].indicator

\* the positions of the indicators that have an entry in the history table
WithHistory == { i \in Positions : IndicatorAt(i) \in DOMAIN history }

RmseAt(i) == calculate_rmse(history[IndicatorAt(i)], 0)

AllEqualWeights ==
    /\ Len(returned_weights) = Len(forecasts_df.rows)
    /\ \A i \in Positions : returned_weights[i].value = Fin(1, Len(forecasts_df.rows))

\* k of the indicators with a history share the weight equally, the others
\* get 0, and no indicator left out has a lower RMSE than one taken
SharedByLowest(k) ==
    /\ Len(returned_weights) = Len(forecasts_df.rows)
    /\ \E S \in SUBSET WithHistory :
          /\ Cardinality(S) = k
          /\ \A i \in Positions :
                returned_weights[i].value = IF i \in S THEN Fin(1, k) ELSE Num(0)
          /\ \A i \in S, j \in WithHistory \ S : FLe(RmseAt(i), RmseAt(j))

Min(a, b) == IF a < b THEN a ELSE b

EnoughHistory(window) ==
    { i \in WithHistory : /\ Len(history[IndicatorAt(i)].forecasts) >= window
                          /\ Len(history[IndicatorAt(i)].actuals) >= window }

HasColumns(df) == "indicator" \in df.columns /\ "forecast" \in df.columns

\* the rows of a table that name an indicator, in order
RowsOf(df, ind) == SelectSeq(df.rows, LAMBDA row : row.indicator = ind)

Named(df) == { df.rows[i].indicator : i \in DOMAIN df.rows }

\* what an entry held before a call (nothing when the indicator was unseen)
Previous(h, ind) == IF ind \in DOMAIN h THEN h[ind] ELSE NewHistory

\* an entry followed by the triples of a call
Extended(old, call, ind) ==
    LET new == RowsOf(call.new_forecasts, ind)
    IN  History(old.forecasts \o [i \in DOMAIN new |-> new[i].forecast],
                old.actuals \o [i \in DOMAIN new |-> call.actual_gdp],
                old.dates \o [i \in DOMAIN new |-> call.forecast_date])

\* C14: a call of update_forecast_history with a table that has both columns
\* leaves each named indicator's history equal to its previous history (empty
\* when it was unseen) followed by one triple (forecast, actual, date) per row
\* naming it, in row order, and leaves every other history as it was.
C14_TriplesAppended ==
    [][(pc = "update" /\ HasColumns(update_call'.new_forecasts)) =>
          /\ DOMAIN history' = DOMAIN history \cup Named(update_call'.new_forecasts)
          /\ \A ind \in DOMAIN history' :
                history'[ind] = Extended(Previous(history, ind), update_call', ind)]_vars

\* A was seen before; a call with rows A, B: A's history keeps its first
\* triple and gains the new one, B's is created
C14_Witness ==
    /\ pc = "update"
    /\ update_call.new_forecasts.rows = << ForecastRow("A", 2), ForecastRow("B", 1) >>
    /\ update_call.actual_gdp = 6
    /\ DOMAIN history = {"A", "B"}
    /\ history["A"] = History(<< 1, 2 >>, << 5, 6 >>, << 7, 8 >>)
    /\ history["B"] = History(<< 1 >>, << 6 >>, << 8 >>)

\* C15: after any sequence of update_forecast_history calls from an empty
\* table every ForecastHistory has as many forecasts as actuals and dates.
C15_EqualLengths ==
    (pc = "update") =>
        \A ind \in DOMAIN history :
            /\ Len(history[ind].forecasts) = Len(history[ind].actuals)
            /\ Len(history[ind].actuals) = Len(history[ind].dates)

\* two calls named A, then a call with a table lacking its columns
C15_Witness ==
    /\ pc = "update"
    /\ ~HasColumns(update_call.new_forecasts)
    /\ "A" \in DOMAIN history
    /\ Len(history["A"].forecasts) = 2
    /\ Len(history["A"].dates) = 2

(***************************************************************************)
(* Claims about GDPData.get_gdp_series.                                    *)
(***************************************************************************)
PreviousQuarter == QuarterOfDate(reference_date) - 1

\* the run of a GDPData of gdp_management.py came to its end
GdpManagementRan ==
    /\ pc \in {"gdp_done", "gdp_import_error"}
    /\ gdp_data.module = "gdp_management"

\* C16: with a reference date in the first month of a quarter and day < 25,
\* no true value recorded for the previous quarter and last_forecast given,
\* the series get_gdp_series returns holds last_forecast at the previous
\* quarter's end date.
C16_ProvisionalAppended ==
    (/\ GdpManagementRan
     /\ BeforeRelease(reference_date)
     /\ ~InIndex(gdp_data.historical_gdp, PreviousQuarter)
     /\ gdp_data.last_forecast # None) =>
        /\ pc = "gdp_done"
        /\ ~gdp_series.raised
        /\ \E i \in DOMAIN gdp_series.series :
              gdp_series.series[i] = Observation(PreviousQuarter, gdp_data.last_forecast)

\* 10 January, an empty historical series, last_forecast = 2.1: the series
\* returned is empty
C16_Witness ==
    /\ pc = "gdp_done"
    /\ gdp_data.module = "gdp_management"
    /\ reference_date = Date(FirstYear, 1, 10)
    /\ gdp_data.historical_gdp = << >>
    /\ gdp_data.last_forecast = ForecastValue
    /\ gdp_series = GdpReturns(<< >>)

\* C17: in both GDPData classes the series returned differs from the
\* historical series only when the reference date is in the first month of a
\* quarter, its day is < 25, and the history does not hold the previous
\* quarter's true value.
C17_SubstitutionOnlyBeforeRelease ==
    (pc = "gdp_done") =>
        /\ ~gdp_series.raised
        /\ gdp_series.series # gdp_data.historical_gdp =>
              /\ BeforeRelease(reference_date)
              /\ ~InIndex(gdp_data.historical_gdp, PreviousQuarter)

\* umidas_mexico.py: the history holds 2023Q4, the call of 10 January with
\* last_forecast = 2.1 returns 2.1 in its place
C17_Witness ==
    /\ pc = "gdp_done"
    /\ gdp_data.module = "umidas_mexico"
    /\ reference_date = Date(FirstYear, 1, 10)
    /\ gdp_data.historical_gdp = << Observation(QuarterNumber(FirstYear - 1, 4), TrueValue) >>
    /\ gdp_series.series = << Observation(QuarterNumber(FirstYear - 1, 4), ForecastValue) >>

\* a call of get_gdp_series of gdp_management.py: the first one or a repeated one
GdpManagementCall ==
    /\ gdp_data.module = "gdp_management"
    /\ \/ pc = "gdp_ready" /\ pc' = "gdp_done"
       \/ pc = "gdp_done" /\ pc' = "gdp_again"

\* the series is in ascending order of its dates
Ascending(series) ==
    \A j, k \in DOMAIN series : j < k => series[j].quarter < series[k].quarter

\* the entries of a series that the history does not hold
AddedTo(historical_gdp, series) ==
    { j \in DOMAIN series :
        \A i \in DOMAIN historical_gdp : series[j] # historical_gdp[i] }

\* C30: a call of GDPData.get_gdp_series leaves the stored historical_gdp
\* as it was and returns every historical (date, value) pair unchanged and
\* at most one further, provisional, entry, in ascending date order; a
\* repeated call with the same reference date returns the same series.
C30_HistoricalKept ==
    [][GdpManagementCall =>
          /\ gdp_data' = gdp_data
          /\ ~ gdp_series'.raised
          /\ \A i \in DOMAIN gdp_data.historical_gdp :
                \E j \in DOMAIN gdp_series'.series :
                   gdp_series'.series[j] = gdp_data.historical_gdp[i]
          /\ Len(gdp_series'.series) <= Len(gdp_data.historical_gdp) + 1
          /\ Cardinality(AddedTo(gdp_data.historical_gdp, gdp_series'.series)) <= 1
          /\ Ascending(gdp_series'.series)
          /\ (pc = "gdp_done") => gdp_series' = gdp_series]_vars

\* 10 January, a history that ends with 2023Q3, last_forecast = 2.1: asked
\* twice, the object returned 2023Q3 and the provisional 2023Q4 both times
C30_Witness ==
    /\ pc = "gdp_again"
    /\ gdp_data.module = "gdp_management"
    /\ reference_date = Date(FirstYear, 1, 10)
    /\ gdp_data.historical_gdp = << Observation(QuarterNumber(FirstYear - 1, 3), TrueValue) >>
    /\ gdp_data.last_forecast = ForecastValue
    /\ gdp_series.series = << Observation(QuarterNumber(FirstYear - 1, 3), TrueValue),
                              Observation(QuarterNumber(FirstYear - 1, 4), ForecastValue) >>

(***************************************************************************)
(* Claims about the directional accuracy.                                  *)
(***************************************************************************)
\* the consecutive-period pairs the metric is taken over: all n - 1 of them,
\* or the last min(window, n - 1) when a window is given (0 stands for None)
PairsCounted(n, window) ==
    LET m == IF window > 0 /\ window < n - 1 THEN window ELSE n - 1
    IN  (n - m)..(n - 1)

\* the pairs in which forecast and actual moved in the same direction
SameDirection(h, pairs) ==
    { i \in pairs :
        (h.forecasts[i + 1] - h.forecasts[i]) * (h.actuals[i + 1] - h.actuals[i]) > 0 }

DirectionAsked ==
    /\ pc = "metrics"
    /\ metric_call.name = "calculate_directional_accuracy"
    /\ metric_call.window >= 0
    /\ Len(forecast_history.forecasts) >= 2

\* the combiner's strategies, the metrics and update_forecast_history together
InitHistory == InitCombiner \/ InitMetrics \/ InitUpdate

NextHistory == NextCombiner \/ NextMetrics \/ NextUpdate

SpecHistory == InitHistory /\ [][NextHistory]_vars

\* old is the beginning of new, triple by triple
IsPrefix(old, new) ==
    /\ Len(old.forecasts) <= Len(new.forecasts)
    /\ SubSeq(new.forecasts, 1, Len(old.forecasts)) = old.forecasts
    /\ Len(old.actuals) <= Len(new.actuals)
    /\ SubSeq(new.actuals, 1, Len(old.actuals)) = old.actuals
    /\ Len(old.dates) <= Len(new.dates)
    /\ SubSeq(new.dates, 1, Len(old.dates)) = old.dates

\* C24: a ForecastHistory is append-only and changed only by
\* update_forecast_history: no ForecastCombiner strategy and no calculate_*
\* metric changes a history, and update_forecast_history keeps every
\* existing triple in place and leaves the histories of the indicators that
\* new_forecasts does not name as they were.
C24_HistoryAppendOnly ==
    [][/\ (pc = "combiner") => history' = history
       /\ (pc = "metrics") => forecast_history' = forecast_history
       /\ (pc = "update") =>
              \A ind \in DOMAIN history :
                 /\ ind \in DOMAIN history'
                 /\ IsPrefix(history[ind], history'[ind])
                 /\ (~ HasColumns(update_call'.new_forecasts)
                        \/ ind \notin Named(update_call'.new_forecasts))
                       => history'[ind] = history[ind]]_vars

\* A was seen in a first call; the latest call names only B: A's history is
\* as the first call left it
C24_Witness ==
    /\ pc = "update"
    /\ update_call.new_forecasts.rows = << ForecastRow("B", 2) >>
    /\ HasColumns(update_call.new_forecasts)
    /\ update_call.actual_gdp = 6
    /\ DOMAIN history = {"A", "B"}
    /\ history["A"] = History(<< 1 >>, << 5 >>, << 7 >>)
    /\ history["B"] = History(<< 2 >>, << 6 >>, << 8 >>)

\* C23: for a history of n >= 2 observations the directional accuracy is
\* the number of counted pairs of consecutive periods in which the change of
\* the forecast times the change of the actual is > 0, divided by the number
\* of counted pairs; a pair in which either change is zero is not among them.
C23_DirectionalAccuracy ==
    DirectionAsked =>
        LET pairs == PairsCounted(Len(forecast_history.forecasts), metric_call.window)
        IN  metric_call.value =
                Fin(Cardinality(SameDirection(forecast_history, pairs)), Cardinality(pairs))

\* three observations, a window of one pair: the last pair has an unchanged
\* actual and counts as incorrect, the pair before it would have been correct
C23_Witness ==
    /\ DirectionAsked
    /\ metric_call.window = 1
    /\ Len(forecast_history.forecasts) = 3
    /\ forecast_history.actuals[3] = forecast_history.actuals[2]
    /\ forecast_history.forecasts[3] # forecast_history.forecasts[2]
    /\ SameDirection(forecast_history, {1}) = {1}
    /\ metric_call.value = Num(0)


(***************************************************************************)
(* Claims about UMIDASModel.fit.                                           *)
(***************************************************************************)
\* C18: a fit on inputs the instance or another instance was fitted on
\* before, whether the instance is new or already fitted, leaves the same
\* retained model (the same lag pair), the same bic_ and the same params_ as
\* the first fit on these inputs did.
C18_FitIdempotent ==
    (pc = "fit" /\ fit_call.inputs = "same") => fitted_instance = first_fit.result

\* the same inputs are fitted again on an instance that a fit on other inputs
\* left with a lower bic_, and a model is retained
C18_Witness ==
    /\ pc = "fit"
    /\ fit_call.inputs = "same"
    /\ fit_call.repeated
    /\ fit_call.before.model_.inputs = "other"
    /\ fitted_instance.model_ # NoUmidasObject
    /\ FLt(fit_call.before.bic_, fitted_instance.bic_)
    /\ \E i, j \in DOMAIN estimator :
          i < j /\ estimator[i].kind = "estimated" /\ estimator[i] = estimator[j]

\* a candidate that was estimated: nothing raised and it has residuals
Succeeded(i) == estimator[i].kind = "estimated"

\* ... with a criterion that can be compared
Scored(i) == Succeeded(i) /\ ~IsNaN(estimator[i].bic)

RetainedFrom(i) ==
    /\ fitted_instance.model_ = UmidasObject("same", LagPairs[i])
    /\ fitted_instance.bic_ = estimator[i].bic

FitSameReturned == pc = "fit" /\ fit_call.inputs = "same"

\* C21 as stated: whenever a candidate was fitted successfully, the model and
\* the bic_ that fit retains are those of a successfully fitted candidate
\* whose score is <= the score of every other one.
C21_Original ==
    (FitSameReturned /\ \E i \in DOMAIN LagPairs : Succeeded(i)) =>
        \E i \in DOMAIN LagPairs :
            /\ Succeeded(i)
            /\ RetainedFrom(i)
            /\ \A j \in DOMAIN LagPairs : Succeeded(j) => FLe(estimator[i].bic, estimator[j].bic)

\* model_ and params_ are set and bic_ is a finite number
Fitted(instance) ==
    /\ instance.model_ # NoUmidasObject
    /\ instance.params_ # NoUmidasObject
    /\ IsFin(instance.bic_)

\* model_ is None, bic_ is +inf, params_ is None
Unfitted(instance) ==
    /\ instance.model_ = NoUmidasObject
    /\ instance.params_ = NoUmidasObject
    /\ instance.bic_ = PosInf

\* no candidate of the latest fit was estimated with a criterion below +inf
\* (on the other inputs every candidate does the same)
NoCandidateSucceeded ==
    \/ /\ fit_call.inputs = "same"
       /\ \A i \in DOMAIN LagPairs : ~ Keeps(estimator[i], [bic |-> PosInf])
    \/ /\ fit_call.inputs = "other"
       /\ ~ fit_call.estimated

\* C29: after a fit that returned the instance is either fitted (model_ and
\* params_ set, bic_ finite) or unfitted (model_ None, bic_ +inf, params_
\* None); a fit in which no candidate succeeded leaves the instance
\* unfitted, whatever an earlier fit had left; predict on an unfitted
\* instance raises.
C29_FittedOrUnfitted ==
    (pc \in {"fit", "predicted"} /\ fit_call # NoFit) =>
        /\ Fitted(fitted_instance) \/ Unfitted(fitted_instance)
        /\ NoCandidateSucceeded => Unfitted(fitted_instance)
        /\ (predict_call # NoPredict /\ Unfitted(fitted_instance)) => predict_call.raised

\* an instance fitted on other inputs was fitted again on inputs for which
\* every candidate fails, and predict was called with a Series and a valid
\* month: the earlier model is gone and predict raised
C29_Witness ==
    /\ pc = "predicted"
    /\ fit_call.inputs = "same"
    /\ Fitted(fit_call.before)
    /\ \A i \in DOMAIN LagPairs : estimator[i] = EstimatorRaises
    /\ Unfitted(fitted_instance)
    /\ predict_call = [X_pred |-> "Series", month_in_quarter |-> 1, raised |-> TRUE]

\* C21: fit goes over every lag pair, whatever the candidates before it did;
\* the model and the bic_ it retains are those of the first candidate, in
\* the order of the loops, among the estimated candidates with a criterion
\* that is not nan, whose criterion is <= that of every other such
\* candidate; candidates that raise, have no residuals or have a nan
\* criterion are passed over, and when no other is left the instance is
\* unfitted.
C21_LowestScoreRetained ==
    FitSameReturned =>
        IF \E i \in DOMAIN LagPairs : Scored(i)
        THEN \E i \in DOMAIN LagPairs :
                /\ Scored(i)
                /\ RetainedFrom(i)
                /\ \A j \in DOMAIN LagPairs : Scored(j) => FLe(estimator[i].bic, estimator[j].bic)
                /\ \A j \in 1..(i - 1) : Scored(j) => FLt(estimator[i].bic, estimator[j].bic)
        ELSE fitted_instance = [model_ |-> NoUmidasObject, bic_ |-> PosInf,
                                params_ |-> NoUmidasObject]

\* the last lag pair is retained: the first one raised and its criterion is
\* the lowest
C21_Witness ==
    /\ FitSameReturned
    /\ estimator[1].kind = "raises"
    /\ RetainedFrom(Len(LagPairs))
    /\ Len(LagPairs) > 1


AllEvaluated == pc \in {"order", "order_reduced"} /\ evaluated = DOMAIN LagPairs

\* what fit retains, going through the lag pairs in the order of its loops
LoopOrderResult == fit(NewInstance, estimator, "same")

\* the candidates with the lowest criterion
Lowest ==
    { i \in DOMAIN LagPairs :
        /\ Scored(i)
        /\ \A j \in DOMAIN LagPairs : Scored(j) => FLe(estimator[i].bic, estimator[j].bic) }

\* C22 as stated: in whatever order the candidates are evaluated, the
\* combination and the criterion retained are those fit retains.
C22_Original ==
    AllEvaluated =>
        /\ reduced.model = LoopOrderResult.model_
        /\ reduced.bic = LoopOrderResult.bic_

\* C22: in whatever order the candidates are evaluated, the criterion
\* retained is the one fit retains and the combination retained is one with
\* the lowest criterion; it is the combination fit retains when a single
\* candidate has the lowest criterion, and among several with the same
\* lowest criterion it is the one evaluated first.
C22_OrderIndependentScore ==
    AllEvaluated =>
        /\ reduced.bic = LoopOrderResult.bic_
        /\ Lowest = {} => reduced.model = NoUmidasObject
        /\ Lowest # {} =>
              \E i \in Lowest : reduced.model = UmidasObject("same", LagPairs[i])
        /\ Cardinality(Lowest) <= 1 => reduced.model = LoopOrderResult.model_

\* all candidates were evaluated, not in the order of the loops, and the
\* only one with the lowest criterion is retained
C22_Witness ==
    /\ AllEvaluated
    /\ out_of_order
    /\ Cardinality(Lowest) = 1
    /\ reduced.model # NoUmidasObject
    /\ reduced.model = LoopOrderResult.model_


(***************************************************************************)
(* Claims about the failures of single indicators in run_weekly_nowcast.   *)
(***************************************************************************)
InIndicatorLoop == pc \in {"wf_loop", "wf_predict"} /\ next_indicator <= Len(available)

HasSeries(ind) == ind \in DOMAIN x_monthly_dict /\ x_monthly_dict[ind].kind = "Series"

\* the months of the observations (not the padding) handed to the estimator
ObservedMonths(x) == { x.index[j] : j \in { k \in DOMAIN x.index : x.values[k] = "obs" } }

ReferenceMonth == MonthIndex(reference_date.year, reference_date.month)

\* C25: run_weekly_nowcast for a reference date works only on monthly
\* observations dated up to that date: the series that fit pads and hands to
\* the estimator holds no observation of a month after the reference month,
\* so values dated later cannot change forecasts, weights or combination.
C25_Original ==
    (pc \in {"wf_loop", "wf_predict", "wf_report", "wf_done"}) =>
        \A month \in ObservedMonths(umidas_model.x_padded) : month <= ReferenceMonth

\* a report was made from the forecast of an indicator whose fit and predict
\* were given an observation of the month after the reference month
C25_Witness ==
    /\ pc = "wf_done"
    /\ report.status = "success"
    /\ Len(results) = 1
    /\ x_monthly_dict[results[1].indicator] = SeriesEnding(reference_date, 0 - 1, SeriesLength)
    /\ ReferenceMonth + 1 \in ObservedMonths(umidas_model.x_padded)

\* C19: while run_weekly_nowcast is in its loop over the available
\* indicators, whatever happens to the indicator at hand (its fit raises, no
\* lag combination fits, its forecast is nan) nothing is raised out of the
\* function and the loop goes on with the next indicator: each indicator
\* that has a series is fitted on that series and, when a model is kept,
\* predicted; the loop is left only after the last indicator, for the
\* combination of the results.
C19_FailureIsolated ==
    [][ (pc \in {"wf_loop", "wf_predict"}) =>
          /\ raised' = FALSE
          /\ available' = available
          /\ IF next_indicator <= Len(available)
             THEN /\ pc' \in {"wf_loop", "wf_predict"}
                  /\ pc' = "wf_loop" => next_indicator' = next_indicator + 1
                  /\ pc' = "wf_predict" =>
                        /\ pc = "wf_loop"
                        /\ next_indicator' = next_indicator
                        /\ umidas_model'.fitted
                  /\ (pc = "wf_loop" /\ HasSeries(available[next_indicator])) =>
                        /\ umidas_model'.x_padded =
                              pad_to_quarter(x_monthly_dict[available[next_indicator]],
                                             target.month_in_quarter)
                        /\ umidas_model'.fitted => pc' = "wf_predict"
             ELSE pc' = "wf_report" ]_vars

\* the run returned although the fit of one indicator raised, and an
\* indicator that came after it has its forecast among the results
C19_Witness ==
    /\ pc = "wf_done"
    /\ ~raised
    /\ \E i, j \in DOMAIN available :
          /\ i < j
          /\ available[i] \in DOMAIN x_monthly_dict
          /\ ~HasSeries(available[i])
          /\ HasSeries(available[j])
          /\ \E r \in DOMAIN results :
                results[r].indicator = available[j] /\ ~IsNaN(results[r].forecast)

(***************************************************************************)
(* Claims about generate_release_calendar.                                 *)
(***************************************************************************)
ReleaseDone == pc = "release_done"

ScheduleOf(i) == config_variable_info[i].info.release_schedule

\* the variable has a release_schedule with week_of_quarter and day_of_month
HasBoth(i) ==
    /\ ScheduleOf(i).type = "dict"
    /\ DictGet(ScheduleOf(i).week_of_quarter) # NoneValue
    /\ DictGet(ScheduleOf(i).day_of_month) # NoneValue

\* ... and both are values int() converts
Convertible(i) ==
    /\ HasBoth(i)
    /\ ~int(ScheduleOf(i).week_of_quarter).raised
    /\ ~int(ScheduleOf(i).day_of_month).raised

RowsOfPair(name, q) ==
    { r \in DOMAIN release_calendar :
        release_calendar[r].variable = name /\ release_calendar[r].quarter = q }

Requests(q) == { j \in DOMAIN quarters : quarters[j] = q }

RequestedQuarters == { quarters[j] : j \in DOMAIN quarters }

\* the date the claim states for the i-th variable and quarter q, as an ordinal
StatedOrdinal(i, q) ==
    ToOrdinal(quarter_start_dates(target_year, q))
    + 7 * (int(ScheduleOf(i).week_of_quarter).value - 1)
    + (int(ScheduleOf(i).day_of_month).value - 1)

\* C20 as stated: one row per variable that has a release_schedule with
\* week_of_quarter and day_of_month and per request of a recognized quarter,
\* whatever the two values are; no row for any other variable.
C20_Original ==
    ReleaseDone =>
        \A i \in DOMAIN config_variable_info, q \in RequestedQuarters \cap RecognizedQuarters :
            Cardinality(RowsOfPair(config_variable_info[i].variable_name, q))
                = IF HasBoth(i) THEN Cardinality(Requests(q)) ELSE 0

\* C20: for each variable whose release_schedule is a dict with
\* week_of_quarter and day_of_month values that are not None and that int()
\* converts, generate_release_calendar returns one row per recognized entry
\* of quarters (an entry listed twice gives two rows), dated quarter start +
\* 7 * (week_of_quarter - 1) + (day_of_month - 1) days; any other variable
\* and any unrecognized quarter gives no row.
C20_ReleaseCalendar ==
    ReleaseDone =>
        /\ \A i \in DOMAIN config_variable_info, q \in RequestedQuarters \cup RecognizedQuarters :
              Cardinality(RowsOfPair(config_variable_info[i].variable_name, q))
                  = IF Convertible(i) /\ q \in RecognizedQuarters
                    THEN Cardinality(Requests(q)) ELSE 0
        /\ \A r \in DOMAIN release_calendar :
              \E i \in DOMAIN config_variable_info :
                  /\ release_calendar[r].variable = config_variable_info[i].variable_name
                  /\ Convertible(i)
                  /\ release_calendar[r].quarter \in RecognizedQuarters
                  /\ ToOrdinal(release_calendar[r].release_date)
                        = StatedOrdinal(i, release_calendar[r].quarter)

\* week 2, day 10, Q1 2023 gave 2023-01-17, next to a variable without a
\* release_schedule and with an unrecognized quarter among those requested
C20_Witness ==
    /\ ReleaseDone
    /\ target_year = 2023
    /\ Len(config_variable_info) = 2
    /\ config_variable_info[1].info = ReleaseSchedule(IntValue(2), IntValue(10))
    /\ config_variable_info[2].info = NoSchedule
    /\ quarters = << "Q1", "Q5" >>
    /\ release_calendar = << [variable |-> "indicator_a", quarter |-> "Q1",
                              release_date |-> Date(2023, 1, 17)] >>

====
